---- MODULE Spec2Model ----
(***************************************************************************)
(* Portfolio backend (Express + Supabase): the request handlers as a       *)
(* state machine.  One action is one HTTP request handled to completion;   *)
(* the tables of the remote store, the resume folder of the storage bucket *)
(* and the mail relay are the state, `last` is the request just handled    *)
(* together with its response.                                             *)
(***************************************************************************)
EXTENDS Integers, Sequences, FiniteSets, TLC

VARIABLES
    env,               \* process.env, read once at startup
    now,               \* the clock, in the whole seconds jsonwebtoken counts
    issued,            \* tokens handed out by POST /admin/login
    skills,            \* table skills
    projects,          \* table projects
    contact_messages,  \* table contact_messages
    personal_info,     \* table personal_info
    hero_section,      \* table hero_section
    experiences,       \* table experiences
    settings,          \* table settings
    storage,           \* the objects of the storage bucket
    nextId,            \* next identifier the store generates
    mails,             \* notification emails handed to the SMTP relay
    inflight,          \* upsert requests between their two store calls
    last               \* the request just handled and its response

vars == <<env, now, issued, skills, projects, contact_messages, personal_info,
          hero_section, experiences, settings, storage, nextId, mails, inflight,
          last>>

tables == <<skills, projects, contact_messages, personal_info, hero_section,
            experiences, settings>>

\* what only the hero, experience and settings handlers and the requests
\* handled in two steps write
untouched == <<hero_section, experiences, settings, inflight>>

\* ------------------------------------------------------------------ bounds
MaxTime == 3
MaxRows == 2
MaxFiles == 2
MaxTokens == 1
MaxRequests == 2
MaxDescLen == 1

\* expiresIn: '24h', scaled to model seconds
ExpiresIn == 2

\* ------------------------------------------------------------- environment
DevUsername == "admin"
DevPassword == "GanpatPortfolio2024!"
DevSecret == "dev_fallback_insecure_jwt_secret"

Envs ==
    { e \in [production : BOOLEAN, ADMIN_USERNAME : {"", "root"},
             ADMIN_PASSWORD : {"", "pw"}, JWT_SECRET : {"", "k"},
             smtp : BOOLEAN] :
        \* auth.ts:9 the process refuses to start in production without a secret
        e.production => e.JWT_SECRET # "" }

getJwtSecret == IF env.JWT_SECRET # "" THEN env.JWT_SECRET ELSE DevSecret

adminUsername ==
    IF env.ADMIN_USERNAME # "" THEN env.ADMIN_USERNAME
    ELSE IF ~env.production THEN DevUsername ELSE ""

adminPassword ==
    IF env.ADMIN_PASSWORD # "" THEN env.ADMIN_PASSWORD
    ELSE IF ~env.production THEN DevPassword ELSE ""

\* ------------------------------------------------------------------ tokens
\* A token as the verifier sees it: kind "jwt" is a well-formed JWT whose
\* signature was made with key sig; "garbage" does not parse; "empty" is "".
NoToken == [kind |-> "empty", username |-> "", role |-> "", iat |-> 0, exp |-> 0, sig |-> ""]
Garbage == [kind |-> "garbage", username |-> "", role |-> "", iat |-> 0, exp |-> 0, sig |-> ""]

jwtSign(username, secret, t) ==
    [kind |-> "jwt", username |-> username, role |-> "admin",
     iat |-> t, exp |-> t + ExpiresIn, sig |-> secret]

jwtVerifyNoExpiry(token, secret, t) ==
    /\ token.kind = "jwt"
    /\ token.sig = secret

\* jwt.verify: the signature matches and the clock has not reached exp
jwtVerify(token, secret, t) ==
    /\ token.kind = "jwt"
    /\ token.sig = secret
    /\ t < token.exp

\* The Authorization header split on ' ': parts = 0 when the header is absent.
NoHeader == [parts |-> 0, scheme |-> "", token |-> NoToken]

Forged(t) == jwtSign("root", "attacker", t)

Headers ==
    {NoHeader, [parts |-> 1, scheme |-> "Bearer", token |-> NoToken],
     [parts |-> 2, scheme |-> "Bearer", token |-> NoToken],
     [parts |-> 2, scheme |-> "Bearer", token |-> Garbage],
     [parts |-> 2, scheme |-> "Bearer", token |-> Forged(now)]}
    \cup { [parts |-> 2, scheme |-> "Bearer", token |-> k] : k \in issued }

\* req.headers.authorization?.split(' ')[1], falsy when absent or empty
headerToken(h) == IF h.parts >= 2 THEN h.token ELSE NoToken

authenticateAdminOpen(h) == TRUE

\* authenticateAdmin: TRUE when next() is called, FALSE when it answers 401
authenticateAdmin(h) ==
    /\ headerToken(h).kind # "empty"
    /\ jwtVerify(headerToken(h), getJwtSecret, now)

\* ---------------------------------------------------------------- requests
NoBody == [none |-> TRUE]

\* what jwt.verify returns: the payload with the times jwt.sign added
decoded(token) ==
    [username |-> token.username, role |-> token.role, iat |-> token.iat,
     exp |-> token.exp]

NoUser == decoded(NoToken)

\* The request and its response.  token is the credential presented, adminUser
\* is req.adminUser, handlerRan tells whether the route handler was entered,
\* dbCalls and dbErrors count the store calls issued and those that returned
\* an error.
Resp(route, hdr, req, authOK, ran, calls, errs, status, body) ==
    [route |-> route, token |-> headerToken(hdr), req |-> req, at |-> now,
     adminUser |-> IF authOK THEN decoded(headerToken(hdr)) ELSE NoUser,
     handlerRan |-> ran, dbCalls |-> calls, dbErrors |-> errs,
     status |-> status, body |-> body, mail |-> "none"]

NoRequest == Resp("none", NoHeader, NoBody, FALSE, FALSE, 0, 0, 0, NoBody)

Unauthorized(route, hdr, req) ==
    /\ last' = Resp(route, hdr, req, FALSE, FALSE, 0, 0, 401, NoBody)
    /\ UNCHANGED <<env, now, issued, skills, projects, contact_messages,
                   personal_info, storage, nextId, mails, untouched>>

\* the upsert requests that run concurrently
Requests == 1..MaxRequests

Idle == [pc |-> "idle", target |-> "none", hdr |-> NoHeader, existing |-> 0]

InitWith(E) ==
    /\ env \in E
    /\ now = 0
    /\ issued = {}
    /\ skills = {}
    /\ projects = {}
    /\ contact_messages = {}
    /\ personal_info = {}
    /\ hero_section = {}
    /\ experiences = {}
    /\ settings = {}
    /\ storage = {}
    /\ nextId = 1
    /\ mails = {}
    /\ inflight = [q \in Requests |-> Idle]
    /\ last = NoRequest

Init == InitWith(Envs)

Tick ==
    /\ now < MaxTime
    /\ now' = now + 1
    /\ UNCHANGED <<env, issued, skills, projects, contact_messages, personal_info,
                   storage, nextId, mails, last, untouched>>

\* ------------------------------------------------------- POST /admin/login
Usernames == {"", "admin", "root"}
Passwords == {"", "GanpatPortfolio2024!", "pw"}

loginStatusNoConfigCheck(username, password) ==
    IF username = "" \/ password = "" THEN 400
    ELSE IF username # adminUsername \/ password # adminPassword THEN 401
    ELSE 200

\* the status POST /login answers with
loginStatus(username, password) ==
    IF username = "" \/ password = "" THEN 400
    ELSE IF env.production /\ (adminUsername = "" \/ adminPassword = "") THEN 500
    ELSE IF username # adminUsername \/ password # adminPassword THEN 401
    ELSE 200

Login ==
    \E username \in Usernames, password \in Passwords :
        LET status == loginStatus(username, password)
            token == IF status = 200 THEN jwtSign(username, getJwtSecret, now)
                     ELSE NoToken
        IN  /\ status = 200 => Cardinality(issued) < MaxTokens
            /\ issued' = IF status = 200 THEN issued \cup {token} ELSE issued
            /\ last' = Resp("login", NoHeader,
                            [username |-> username, password |-> password],
                            FALSE, TRUE, 0, 0, status, [token |-> token])
            /\ UNCHANGED <<env, now, skills, projects, contact_messages,
                           personal_info, storage, nextId, mails, untouched>>

\* ------------------------------------------------------------ store helpers
\* update(body).eq('id', id): the columns named in body are overwritten
Merge(row, body) ==
    [f \in DOMAIN row |-> IF f \in DOMAIN body THEN body[f] ELSE row[f]]

Has(body, f) == f \in DOMAIN body

RowsWithId(table, id) == { r \in table : r.id = id }

Ids == 1..MaxRows

\* ------------------------------------------------------------- admin/skills
SkillCategories == {"frontend", "backend", "tools", "ai-ml", "other", "custom"}

SkillBodies ==
    {[name |-> "ts", level |-> 50, category |-> "frontend"],
     [name |-> "", level |-> 101, category |-> "backend"],
     [level |-> 7]}

\* with a body whose only fault is its level, and one without a level
SkillLevelBodies ==
    SkillBodies \cup {[level |-> 101], [name |-> "go", category |-> "tools"]}

levelOkNoMax(v) == v >= 0

\* isInt({ min: 0, max: 100 })
levelOk(v) == v \in 0..100

\* the CHECK constraints of table skills
skillRowOk(r) == levelOk(r.level) /\ r.category \in SkillCategories

\* POST /skills validators: name, level and category are required
skillCreateValid(b) ==
    /\ Has(b, "name") /\ b.name # ""
    /\ Has(b, "level") /\ levelOk(b.level)
    /\ Has(b, "category") /\ b.category # ""

\* PUT /skills/:id validators: every field is optional
skillUpdateValid(b) ==
    /\ Has(b, "name") => b.name # ""
    /\ Has(b, "level") => levelOk(b.level)
    /\ Has(b, "category") => b.category # ""

AdminPostSkillOf(bodies) ==
    \E hdr \in Headers, b \in bodies, dbOk \in BOOLEAN :
        IF ~authenticateAdmin(hdr) THEN Unauthorized("POST /admin/skills", hdr, b)
        ELSE
        LET valid == skillCreateValid(b)
            row == [id |-> nextId, name |-> b.name, level |-> b.level,
                    category |-> b.category]
            stored == valid /\ dbOk /\ skillRowOk(row)
        IN  /\ valid /\ dbOk => nextId <= MaxRows
            /\ skills' = IF stored THEN skills \cup {row} ELSE skills
            /\ nextId' = IF stored THEN nextId + 1 ELSE nextId
            /\ last' = Resp("POST /admin/skills", hdr, b, TRUE, TRUE,
                            IF valid THEN 1 ELSE 0,
                            IF valid /\ ~stored THEN 1 ELSE 0,
                            IF ~valid THEN 400 ELSE IF stored THEN 201 ELSE 500,
                            NoBody)
            /\ UNCHANGED <<env, now, issued, projects, contact_messages,
                           personal_info, storage, mails, untouched>>

AdminPostSkill == AdminPostSkillOf(SkillBodies)

AdminPostSkillLevels == AdminPostSkillOf(SkillLevelBodies)

AdminPutSkillOf(bodies) ==
    \E hdr \in Headers, id \in Ids, b \in bodies, dbOk \in BOOLEAN :
        IF ~authenticateAdmin(hdr) THEN Unauthorized("PUT /admin/skills/:id", hdr, b)
        ELSE
        LET valid == skillUpdateValid(b)
            hit == RowsWithId(skills, id)
            new == { Merge(r, b) : r \in hit }
            \* .single() reports PGRST116 when no row matched
            stored == valid /\ dbOk /\ hit # {} /\ \A r \in new : skillRowOk(r)
        IN  /\ skills' = IF stored THEN (skills \ hit) \cup new ELSE skills
            /\ last' = Resp("PUT /admin/skills/:id", hdr, b, TRUE, TRUE,
                            IF valid THEN 1 ELSE 0,
                            IF valid /\ ~stored THEN 1 ELSE 0,
                            IF ~valid THEN 400 ELSE IF stored THEN 200 ELSE 500,
                            NoBody)
            /\ UNCHANGED <<env, now, issued, projects, contact_messages,
                           personal_info, storage, nextId, mails, untouched>>

AdminPutSkill == AdminPutSkillOf(SkillBodies)

AdminPutSkillLevels == AdminPutSkillOf(SkillLevelBodies)

\* ------------------------------------------------------------ POST /contact
\* An address is the sequence of the pieces email.split('@') yields.
Emails ==
    {<<"">>,
     <<"u">>,
     <<"u", "gmail.com">>,
     <<"u", "mailinator.com">>,
     <<"u", "MAILINATOR.COM">>,
     <<"u", "gmail.com", "mailinator.com">>,
     <<"\"a", "b\"", "mailinator.com">>}

disposableEmailDomains ==
    {"10minutemail.com", "tempmail.com", "guerrillamail.com", "mailinator.com",
     "throwaway.email", "temp-mail.org", "fakeinbox.com", "trashmail.com",
     "getnada.com", "maildrop.cc", "yopmail.com", "mohmal.com", "sharklasers.com",
     "bugmenot.com", "dispostable.com", "spamgourmet.com", "mintemail.com"}

\* String.prototype.toLowerCase on the strings of the model
toLowerCase(str) == IF str = "MAILINATOR.COM" THEN "mailinator.com" ELSE str

isFQDN(str) == str \in {"gmail.com", "mailinator.com", "MAILINATOR.COM"}

\* body('email').isEmail(): the text after the last '@' is a domain name and
\* the text before it is either one dot-atom or a quoted string, and a quoted
\* string may itself contain '@'
isEmail(email) ==
    /\ Len(email) >= 2
    /\ isFQDN(email[Len(email)])
    /\ \/ Len(email) = 2 /\ email[1] = "u"
       \/ Len(email) >= 3 /\ email[1] = "\"a" /\ email[Len(email) - 1] = "b\""

\* validateEmailDomain: TRUE when it answers 400 instead of calling next()
validateEmailDomain(email) ==
    /\ email # <<"">>
    /\ Len(email) >= 2
    /\ toLowerCase(email[2]) \in disposableEmailDomains

contactValid(f) ==
    f.name # "" /\ isEmail(f.email) /\ f.subject # "" /\ f.message # ""

BaseForm ==
    [name |-> "n", email |-> <<"u", "gmail.com">>, subject |-> "s",
     message |-> "m", phone |-> ""]

\* the complete form with every address, and the forms with one field empty
ContactForms ==
    { [BaseForm EXCEPT !.email = e] : e \in Emails }
    \cup {[BaseForm EXCEPT !.name = ""], [BaseForm EXCEPT !.subject = ""],
          [BaseForm EXCEPT !.message = ""], [BaseForm EXCEPT !.phone = "555"],
          [BaseForm EXCEPT !.name = "", !.email = <<"u", "mailinator.com">>]}

contactRowSwapped(id, f) ==
    [id |-> id, name |-> f.name, email |-> f.email, subject |-> f.message,
     message |-> f.subject, phone |-> f.phone, status |-> "unread",
     created_at |-> now]

\* the row insert([{ name, email, subject, message, phone, status: 'unread' }]) stores
contactRow(id, f) ==
    [id |-> id, name |-> f.name, email |-> f.email, subject |-> f.subject,
     message |-> f.message, phone |-> f.phone, status |-> "unread",
     created_at |-> now]

MailOutcomes == {"sent", "rejected"}

contactStatusMailFails(inserted, mail) ==
    IF ~inserted THEN 500 ELSE IF mail = "rejected" THEN 500 ELSE 201

\* the status the contact handler answers with once validation has passed
contactStatus(inserted, mail) == IF inserted THEN 201 ELSE 500

\* variant that sends whether or not the insert succeeded
notificationRegardless(inserted, outcome) ==
    IF ~env.smtp THEN "disabled" ELSE outcome

\* sendContactNotification: nothing is sent without a transporter
notification(inserted, outcome) ==
    IF ~inserted THEN "none" ELSE IF ~env.smtp THEN "disabled" ELSE outcome

ContactPostOf(forms) ==
    \E f \in forms, dbOk \in BOOLEAN, outcome \in MailOutcomes :
        LET route == "POST /contact" IN
        IF validateEmailDomain(f.email)
        THEN /\ last' = Resp(route, NoHeader, f, FALSE, FALSE, 0, 0, 400, NoBody)
             /\ UNCHANGED <<env, now, issued, skills, projects, contact_messages,
                            personal_info, storage, nextId, mails, untouched>>
        ELSE IF ~contactValid(f)
        THEN /\ last' = Resp(route, NoHeader, f, FALSE, TRUE, 0, 0, 400, NoBody)
             /\ UNCHANGED <<env, now, issued, skills, projects, contact_messages,
                            personal_info, storage, nextId, mails, untouched>>
        ELSE
        LET row == contactRow(nextId, f)
            mail == notification(dbOk, outcome)
        IN  /\ dbOk => nextId <= MaxRows
            /\ contact_messages' = IF dbOk THEN contact_messages \cup {row}
                                   ELSE contact_messages
            /\ nextId' = IF dbOk THEN nextId + 1 ELSE nextId
            /\ mails' = IF mail \in MailOutcomes
                        THEN mails \cup {[id |-> row.id, outcome |-> mail]}
                        ELSE mails
            /\ last' = [Resp(route, NoHeader, f, FALSE, TRUE, 1,
                             IF dbOk THEN 0 ELSE 1, contactStatus(dbOk, mail),
                             IF dbOk THEN [id |-> row.id] ELSE NoBody)
                        EXCEPT !.mail = mail]
            /\ UNCHANGED <<env, now, issued, skills, projects, personal_info, storage, untouched>>

ContactPost == ContactPostOf(ContactForms)

\* the complete form alone
ContactPostBase == ContactPostOf({BaseForm})

\* The router that sends through its own nodemailer transporter: it has no
\* domain check, and awaits sendMail inside its own try/catch.
ContactPostInline ==
    \E f \in ContactForms, dbOk \in BOOLEAN, outcome \in MailOutcomes :
        LET route == "POST /contact (inline mailer)" IN
        IF ~contactValid(f)
        THEN /\ last' = Resp(route, NoHeader, f, FALSE, TRUE, 0, 0, 400, NoBody)
             /\ UNCHANGED <<env, now, issued, skills, projects, contact_messages,
                            personal_info, storage, nextId, mails, untouched>>
        ELSE
        LET row == contactRow(nextId, f)
            mail == IF dbOk THEN outcome ELSE "none"
        IN  /\ dbOk => nextId <= MaxRows
            /\ contact_messages' = IF dbOk THEN contact_messages \cup {row}
                                   ELSE contact_messages
            /\ nextId' = IF dbOk THEN nextId + 1 ELSE nextId
            /\ mails' = IF mail \in MailOutcomes
                        THEN mails \cup {[id |-> row.id, outcome |-> mail]}
                        ELSE mails
            /\ last' = [Resp(route, NoHeader, f, FALSE, TRUE, 1,
                             IF dbOk THEN 0 ELSE 1, contactStatus(dbOk, mail),
                             IF dbOk THEN [id |-> row.id] ELSE NoBody)
                        EXCEPT !.mail = mail]
            /\ UNCHANGED <<env, now, issued, skills, projects, personal_info, storage, untouched>>

\* ------------------------------------------- GET /contact, PATCH /contact/:id
\* .order(column): every arrangement of the rows in which no row comes after
\* a row it must precede (the store breaks ties as it likes)
Orderings(table, Before(_, _)) ==
    { s \in [1..Cardinality(table) -> table] :
        /\ \A i, j \in DOMAIN s : i # j => s[i] # s[j]
        /\ \A i, j \in DOMAIN s : i < j => ~Before(s[j], s[i]) }

CreatedDescending(a, b) == a.created_at > b.created_at

SortOrderThenCreated(a, b) ==
    \/ a.sort_order < b.sort_order
    \/ a.sort_order = b.sort_order /\ a.created_at > b.created_at

\* what a client that is not the admin sends
AnonHeaders == {NoHeader, [parts |-> 2, scheme |-> "Bearer", token |-> Garbage]}

ContactGet ==
    \E hdr \in AnonHeaders, dbOk \in BOOLEAN,
       rows \in Orderings(contact_messages, CreatedDescending) :
        /\ last' = Resp("GET /api/contact", hdr, NoBody, FALSE, TRUE, 1,
                        IF dbOk THEN 0 ELSE 1, IF dbOk THEN 200 ELSE 500,
                        [rows |-> IF dbOk THEN rows ELSE <<>>, wrapped |-> FALSE])
        /\ UNCHANGED <<env, now, issued, skills, projects, contact_messages,
                       personal_info, storage, nextId, mails, untouched>>

MessageStatusesWithArchived == {"unread", "read", "replied", "archived"}

\* isIn(['unread', 'read', 'replied'])
MessageStatuses == {"unread", "read", "replied"}

ContactPatchStatus ==
    \E hdr \in AnonHeaders, id \in Ids, status \in MessageStatuses \cup {"archived"},
       dbOk \in BOOLEAN :
        LET valid == status \in MessageStatuses
            hit == RowsWithId(contact_messages, id)
            stored == valid /\ dbOk /\ hit # {}
        IN  /\ contact_messages' =
                  IF stored
                  THEN (contact_messages \ hit) \cup {[r EXCEPT !.status = status] : r \in hit}
                  ELSE contact_messages
            /\ last' = Resp("PATCH /api/contact/:id/status", hdr,
                            [id |-> id, status |-> status], FALSE, TRUE,
                            IF valid THEN 1 ELSE 0,
                            IF valid /\ ~stored THEN 1 ELSE 0,
                            IF ~valid THEN 400 ELSE IF stored THEN 200 ELSE 500,
                            NoBody)
            /\ UNCHANGED <<env, now, issued, skills, projects, personal_info,
                           storage, nextId, mails, untouched>>

\* --------------------------------------------------------- route mounting
\* app.use(prefix, router) in the order server.ts registers them; a path is
\* the sequence of its segments.
Mounts ==
    <<[prefix |-> <<"api", "projects">>, router |-> "projectsRouter"],
      [prefix |-> <<"api", "contact">>, router |-> "contactRouter"],
      [prefix |-> <<"api", "analytics">>, router |-> "analyticsRouter"],
      [prefix |-> <<"api", "admin">>, router |-> "adminRouter"],
      [prefix |-> <<"api", "uploads">>, router |-> "uploadsRouter"],
      [prefix |-> <<"api">>, router |-> "publicRouter"]>>

\* the GET routes without parameters the routers register
GetRoutes(router) ==
    CASE router = "projectsRouter" -> {<<>>}
      [] router = "contactRouter" -> {<<>>}
      [] router = "publicRouter" -> {<<"personal-info">>, <<"projects">>, <<"skills">>,
                                     <<"experiences">>, <<"settings">>}
      [] OTHER -> {}

IsPrefix(p, path) == Len(p) <= Len(path) /\ SubSeq(path, 1, Len(p)) = p

Serves(m, path) ==
    IsPrefix(m.prefix, path) /\ SubSeq(path, Len(m.prefix) + 1, Len(path)) \in GetRoutes(m.router)

\* the router whose handler answers GET path: the first mount that matches
dispatchGet(path) ==
    LET hits == { i \in DOMAIN Mounts : Serves(Mounts[i], path) }
    IN  IF hits = {} THEN "none"
        ELSE Mounts[CHOOSE i \in hits : \A j \in hits : i <= j].router

\* ------------------------------------------------------------ /api/projects
ProjectStatuses == {"completed", "in-progress", "planning"}

ProjectBodies ==
    {[title |-> "p", description |-> "d", technologies |-> <<"ts">>, sort_order |-> 1],
     [title |-> "q", description |-> "d", technologies |-> <<>>],
     [title |-> "", description |-> "d", technologies |-> <<>>],
     [sort_order |-> 1],
     [status |-> "archived"]}

\* the column defaults of table projects
projectDefaults(id) ==
    [id |-> id, title |-> "", description |-> "", technologies |-> <<>>,
     status |-> "completed", sort_order |-> 0, created_at |-> now]

\* SQL NULL
Null == "<null>"

\* NOT NULL and CHECK constraints of table projects ("" stands for a missing
\* title or description).  status has no NOT NULL, and a CHECK whose
\* expression is NULL is satisfied.
projectRowOk(r) ==
    r.title # "" /\ r.description # "" /\ r.status \in ProjectStatuses \cup {Null}

\* projects.ts POST validators
projectCreateValid(b) ==
    /\ Has(b, "title") /\ b.title # ""
    /\ Has(b, "description") /\ b.description # ""
    /\ Has(b, "technologies")

\* projects.ts PUT validators
projectUpdateValid(b) ==
    /\ Has(b, "title") => b.title # ""
    /\ Has(b, "description") => b.description # ""

PublicGetProjects ==
    \E hdr \in AnonHeaders, dbOk \in BOOLEAN :
        LET router == dispatchGet(<<"api", "projects">>)
            answers ==
                IF router = "projectsRouter"
                THEN { [rows |-> r, wrapped |-> FALSE] :
                         r \in Orderings(projects, CreatedDescending) }
                ELSE { [rows |-> r, wrapped |-> TRUE] :
                         r \in Orderings(projects, SortOrderThenCreated) }
        IN  \E answer \in answers :
            /\ last' = Resp("GET /api/projects", hdr, NoBody, FALSE, TRUE, 1,
                            IF dbOk THEN 0 ELSE 1, IF dbOk THEN 200 ELSE 500,
                            IF dbOk THEN answer ELSE [rows |-> <<>>, wrapped |-> FALSE])
            /\ UNCHANGED <<env, now, issued, skills, projects, contact_messages,
                           personal_info, storage, nextId, mails, untouched>>

PublicPostProject ==
    \E hdr \in AnonHeaders, b \in ProjectBodies, dbOk \in BOOLEAN :
        LET valid == projectCreateValid(b)
            row == Merge(projectDefaults(nextId), b)
            stored == valid /\ dbOk /\ projectRowOk(row)
        IN  /\ stored => nextId <= MaxRows
            \* NOW() has microsecond resolution: no two rows share created_at
            /\ stored => \A r \in projects : r.created_at < now
            /\ projects' = IF stored THEN projects \cup {row} ELSE projects
            /\ nextId' = IF stored THEN nextId + 1 ELSE nextId
            /\ last' = Resp("POST /api/projects", hdr, b, FALSE, TRUE,
                            IF valid THEN 1 ELSE 0,
                            IF valid /\ ~stored THEN 1 ELSE 0,
                            IF ~valid THEN 400 ELSE IF stored THEN 201 ELSE 500,
                            NoBody)
            /\ UNCHANGED <<env, now, issued, skills, contact_messages,
                           personal_info, storage, mails, untouched>>

PublicPutProject ==
    \E hdr \in AnonHeaders, id \in Ids, b \in ProjectBodies, dbOk \in BOOLEAN :
        LET valid == projectUpdateValid(b)
            hit == RowsWithId(projects, id)
            new == { Merge(r, b) : r \in hit }
            stored == valid /\ dbOk /\ hit # {} /\ \A r \in new : projectRowOk(r)
        IN  /\ projects' = IF stored THEN (projects \ hit) \cup new ELSE projects
            /\ last' = Resp("PUT /api/projects/:id", hdr, b, FALSE, TRUE,
                            IF valid THEN 1 ELSE 0,
                            IF valid /\ ~stored THEN 1 ELSE 0,
                            IF ~valid THEN 400 ELSE IF stored THEN 200 ELSE 500,
                            NoBody)
            /\ UNCHANGED <<env, now, issued, skills, contact_messages,
                           personal_info, storage, nextId, mails, untouched>>

PublicDeleteProject ==
    \E hdr \in AnonHeaders, id \in Ids, dbOk \in BOOLEAN :
        /\ projects' = IF dbOk THEN projects \ RowsWithId(projects, id) ELSE projects
        /\ last' = Resp("DELETE /api/projects/:id", hdr, [id |-> id], FALSE, TRUE, 1,
                        IF dbOk THEN 0 ELSE 1, IF dbOk THEN 200 ELSE 500, NoBody)
        /\ UNCHANGED <<env, now, issued, skills, contact_messages,
                       personal_info, storage, nextId, mails, untouched>>

\* ----------------------------------------------------------- /api/uploads
ImageTypes == {"image/jpeg", "image/png", "image/gif", "image/webp"}

Mimetypes == {"application/pdf", "image/png", "text/plain"}

NoFile == "no file"

\* imageUpload.fileFilter: the error handed to cb, "none" when it accepts
imageFileFilter(mimetype) ==
    IF mimetype \in ImageTypes THEN "none" ELSE "Error"

\* resumeUpload.fileFilter: the error handed to cb, "none" when it accepts
resumeFileFilter(mimetype) ==
    IF mimetype = "application/pdf" THEN "none" ELSE "Error"

\* the error middleware of server.ts, for an error with this name and status
errorMiddleware(name, status) ==
    IF status = 404 THEN 404
    ELSE IF name = "ValidationError" THEN 400
    ELSE 500

\* the objects of the bucket under a folder
Folder(f) == { o \in storage : o.folder = f }

\* POST /image: multer filters the file, then the handler uploads it
UploadImage ==
    \E file \in Mimetypes \cup {NoFile}, uploadOk \in BOOLEAN :
        LET route == "POST /uploads/image"
            req == [mimetype |-> file]
        IN
        IF file # NoFile /\ imageFileFilter(file) # "none"
        THEN /\ last' = Resp(route, NoHeader, req, FALSE, FALSE, 0, 0,
                             errorMiddleware(imageFileFilter(file), 0), NoBody)
             /\ UNCHANGED <<env, now, issued, skills, projects, contact_messages,
                            personal_info, storage, nextId, mails, untouched>>
        ELSE IF file = NoFile
        THEN /\ last' = Resp(route, NoHeader, req, FALSE, TRUE, 0, 0, 400, NoBody)
             /\ UNCHANGED <<env, now, issued, skills, projects, contact_messages,
                            personal_info, storage, nextId, mails, untouched>>
        ELSE
        LET fileName == [folder |-> "images", at |-> 0, id |-> nextId]
        IN  /\ uploadOk => nextId <= MaxFiles
            /\ storage' = IF uploadOk THEN storage \cup {fileName} ELSE storage
            /\ nextId' = IF uploadOk THEN nextId + 1 ELSE nextId
            /\ last' = Resp(route, NoHeader, req, FALSE, TRUE, 1,
                            IF uploadOk THEN 0 ELSE 1,
                            IF uploadOk THEN 200 ELSE 500,
                            IF uploadOk THEN [fileName |-> fileName] ELSE NoBody)
            /\ UNCHANGED <<env, now, issued, skills, projects, contact_messages,
                           personal_info, mails, untouched>>

\* POST /resume: multer filters the file, then the handler empties resumes/
\* and uploads.  A failed list or remove is ignored, a failed upload is 500.
UploadResume ==
    \E file \in Mimetypes \cup {NoFile}, listOk, removeOk, uploadOk \in BOOLEAN :
        LET route == "POST /uploads/resume"
            req == [mimetype |-> file]
        IN
        IF file # NoFile /\ resumeFileFilter(file) # "none"
        THEN /\ last' = Resp(route, NoHeader, req, FALSE, FALSE, 0, 0,
                             errorMiddleware(resumeFileFilter(file), 0), NoBody)
             /\ UNCHANGED <<env, now, issued, skills, projects, contact_messages,
                            personal_info, storage, nextId, mails, untouched>>
        ELSE IF file = NoFile
        THEN /\ last' = Resp(route, NoHeader, req, FALSE, TRUE, 0, 0, 400, NoBody)
             /\ UNCHANGED <<env, now, issued, skills, projects, contact_messages,
                            personal_info, storage, nextId, mails, untouched>>
        ELSE
        LET existingFiles == IF listOk THEN Folder("resumes") ELSE {}
            removed == IF removeOk THEN existingFiles ELSE {}
            \* resume_${timestamp}_${randomId}.pdf
            fileName == [folder |-> "resumes", at |-> now, id |-> nextId]
            calls == 1 + (IF existingFiles # {} THEN 1 ELSE 0) + 1
            errs == (IF listOk THEN 0 ELSE 1)
                    + (IF existingFiles # {} /\ ~removeOk THEN 1 ELSE 0)
                    + (IF uploadOk THEN 0 ELSE 1)
        IN  /\ uploadOk => nextId <= MaxFiles
            /\ storage' = (storage \ removed)
                            \cup (IF uploadOk THEN {fileName} ELSE {})
            /\ nextId' = IF uploadOk THEN nextId + 1 ELSE nextId
            /\ last' = Resp(route, NoHeader, req, FALSE, TRUE, calls, errs,
                            IF uploadOk THEN 200 ELSE 500,
                            IF uploadOk THEN [fileName |-> fileName] ELSE NoBody)
            /\ UNCHANGED <<env, now, issued, skills, projects, contact_messages,
                           personal_info, mails, untouched>>

\* a name the bucket never holds: ids start at 1
Missing == [folder |-> "images", at |-> 0, id |-> 0]

\* DELETE /file/:fileName removes the named object; a name the bucket does
\* not hold removes nothing and is no error
DeleteFile ==
    \E fileName \in storage \cup {Missing}, removeOk \in BOOLEAN :
        /\ storage' = IF removeOk THEN storage \ {fileName} ELSE storage
        /\ last' = Resp("DELETE /uploads/file/:fileName", NoHeader,
                        [fileName |-> fileName], FALSE, TRUE, 1,
                        IF removeOk THEN 0 ELSE 1, IF removeOk THEN 200 ELSE 500,
                        NoBody)
        /\ UNCHANGED <<env, now, issued, skills, projects, contact_messages,
                       personal_info, nextId, mails, untouched>>

\* ------------------------------------------------- admin/dashboard/stats
\* the tables database/schema.sql creates
SchemaTables ==
    {"personal_info", "hero_section", "projects", "skills", "experiences",
     "contact_messages", "analytics", "settings"}

\* the six selects of GET /stats, by the table each one names
StatsQueries ==
    <<"projects", "skills", "experiences", "messages", "messages", "messages">>

TableRows(name) ==
    CASE name = "projects" -> projects
      [] name = "skills" -> skills
      [] name = "experiences" -> experiences
      [] name = "contact_messages" -> contact_messages
      [] OTHER -> {}

\* GET /stats answers 200 from whatever the selects returned: no result's
\* error is looked at; a select on a table the schema lacks returns an error
AdminGetStats ==
    \E hdr \in Headers, failing \in SUBSET {1, 2, 3} :
        IF ~authenticateAdmin(hdr) THEN Unauthorized("GET /admin/dashboard/stats", hdr, NoBody)
        ELSE
        LET ok(i) == StatsQueries[i] \in SchemaTables /\ i \notin failing
            \* result.count || 0
            count(i) == IF ok(i) THEN Cardinality(TableRows(StatsQueries[i])) ELSE 0
            errs == Cardinality({ i \in DOMAIN StatsQueries : ~ok(i) })
        IN  /\ last' = Resp("GET /admin/dashboard/stats", hdr, NoBody, TRUE, TRUE,
                            Len(StatsQueries), errs, 200,
                            [totalProjects |-> count(1), totalSkills |-> count(2),
                             totalExperiences |-> count(3), totalMessages |-> count(4),
                             unreadMessages |-> count(5)])
            /\ UNCHANGED <<env, now, issued, skills, projects, contact_messages,
                           personal_info, storage, nextId, mails, untouched>>

\* ---------------------------------------------------- admin/personal-info
jwtFields == {"iat", "exp", "sub", "aud", "iss"}

filterJwtFields(data) == [f \in DOMAIN data \ jwtFields |-> data[f]]

PersonalBodies ==
    {[name |-> "G", title |-> "dev"],
     [title |-> "lead", iat |-> "1"],
     [name |-> ""]}

personalValid(b) ==
    /\ Has(b, "name") => b.name # ""
    /\ Has(b, "title") => b.title # ""

personalDefaults(id) == [id |-> id, name |-> "", title |-> ""]

\* name VARCHAR(255) NOT NULL
personalRowOk(r) == r.name # ""

\* PUT /personal-info: look for a row, then update it or insert one.  The
\* error of the lookup is not read: without data the handler inserts.
AdminPutPersonalInfoOf(bodies) ==
    \E hdr \in Headers, b \in bodies, lookupOk, writeOk \in BOOLEAN :
        LET route == "PUT /admin/personal-info" IN
        IF ~authenticateAdmin(hdr) THEN Unauthorized(route, hdr, b)
        ELSE IF ~personalValid(b)
        THEN /\ last' = Resp(route, hdr, b, TRUE, TRUE, 0, 0, 400, NoBody)
             /\ UNCHANGED <<env, now, issued, skills, projects, contact_messages,
                            personal_info, storage, nextId, mails, untouched>>
        ELSE
        \* .limit(1).single(): one of the rows, or PGRST116 for an empty table
        \E existing \in (IF lookupOk THEN personal_info ELSE {}) \cup {NoBody} :
            /\ existing = NoBody => ~lookupOk \/ personal_info = {}
            /\ LET data == filterJwtFields(b)
                   found == existing # NoBody
                   row == IF found THEN Merge(existing, data)
                          ELSE Merge(personalDefaults(nextId), data)
                   stored == writeOk /\ personalRowOk(row)
                   errs == (IF found THEN 0 ELSE 1) + (IF stored THEN 0 ELSE 1)
               IN  /\ (stored /\ ~found) => nextId <= MaxRows
                   /\ personal_info' =
                         IF ~stored THEN personal_info
                         ELSE IF found THEN (personal_info \ {existing}) \cup {row}
                         ELSE personal_info \cup {row}
                   /\ nextId' = IF stored /\ ~found THEN nextId + 1 ELSE nextId
                   /\ last' = Resp(route, hdr, b, TRUE, TRUE, 2, errs,
                                   IF stored THEN 200 ELSE 500, NoBody)
                   /\ UNCHANGED <<env, now, issued, skills, projects,
                                  contact_messages, storage, mails, untouched>>

AdminPutPersonalInfo == AdminPutPersonalInfoOf(PersonalBodies)

\* GET /:id of projects.ts: .single() returns the row, or an error when no
\* row (PGRST116) matched or the select failed.  Any error is thrown and
\* answered 500; the 404 branch needs a result with neither error nor data.
selectSingle(table, id, dbOk) ==
    IF ~dbOk THEN [error |-> "failure", data |-> {}]
    ELSE IF RowsWithId(table, id) = {} THEN [error |-> "PGRST116", data |-> {}]
    ELSE [error |-> "none", data |-> RowsWithId(table, id)]

getByIdStatus(result) ==
    IF result.error # "none" THEN 500
    ELSE IF result.data = {} THEN 404
    ELSE 200

PublicGetProject ==
    \E hdr \in AnonHeaders, id \in Ids, dbOk \in BOOLEAN :
        LET result == selectSingle(projects, id, dbOk)
        IN  /\ last' = Resp("GET /api/projects/:id", hdr, [id |-> id], FALSE, TRUE, 1,
                            IF result.error = "none" THEN 0 ELSE 1,
                            getByIdStatus(result), result)
            /\ UNCHANGED <<env, now, issued, skills, projects, contact_messages,
                           personal_info, storage, nextId, mails, untouched>>

\* ------------------------------------------------------------- admin/hero
systemFields == jwtFields \cup {"id", "created_at", "updated_at"}

filterSystemFields(data) == [f \in DOMAIN data \ systemFields |-> data[f]]

\* typing_texts carries whether the submitted value is an array
HeroBodies ==
    {[name |-> "G", greeting |-> "hi"],
     [quote |-> "q", id |-> 9],
     [name |-> "H", typing_texts |-> [isArray |-> FALSE, items |-> <<>>]],
     [name |-> "", typing_texts |-> [isArray |-> TRUE, items |-> <<"dev">>]]}

\* variant without the isArray validator
heroValidAny(b) == TRUE

\* the validators of PUT /hero: the strings of HeroBodies are strings
heroValid(b) == Has(b, "typing_texts") => b.typing_texts.isArray

\* the frontend fields mapped to the columns of hero_section
heroDbData(inputData) ==
    LET cols == {"updated_at"}
                \cup (IF Has(inputData, "greeting") THEN {"greeting"} ELSE {})
                \cup (IF Has(inputData, "name") THEN {"name"} ELSE {})
                \cup (IF Has(inputData, "typing_texts") THEN {"titles"} ELSE {})
                \cup (IF Has(inputData, "quote") THEN {"description"} ELSE {})
    IN  [c \in cols |->
            CASE c = "updated_at" -> now
              [] c = "greeting" -> inputData.greeting
              [] c = "name" -> inputData.name
              [] c = "titles" -> inputData.typing_texts.items
              [] c = "description" -> inputData.quote]

\* the column defaults of hero_section, NULL written as ""
heroDefaults(id) ==
    [id |-> id, greeting |-> "Hello, I'm", name |-> "",
     titles |-> <<"Full Stack Developer">>, description |-> "", updated_at |-> now]

\* variant that takes the empty string for a name
noNameUndefinedOnly(dbData) == ~Has(dbData, "name")

\* !dbData.name: no name, or the empty one
noName(dbData) == ~Has(dbData, "name") \/ dbData.name = ""

\* PUT /hero: look for a row with maybeSingle, then update it or insert one.
\* The error of the lookup is not read; an insert without a name is refused
\* with 400 after the lookup.
AdminPutHeroOf(bodies) ==
    \E hdr \in Headers, b \in bodies, lookupOk, writeOk \in BOOLEAN :
        LET route == "PUT /admin/hero" IN
        IF ~authenticateAdmin(hdr) THEN Unauthorized(route, hdr, b)
        ELSE IF ~heroValid(b)
        THEN /\ last' = Resp(route, hdr, b, TRUE, TRUE, 0, 0, 400, NoBody)
             /\ UNCHANGED <<env, now, issued, skills, projects, contact_messages,
                            personal_info, storage, nextId, mails, untouched>>
        ELSE
        \E existingHero \in (IF lookupOk THEN hero_section ELSE {}) \cup {NoBody} :
            /\ existingHero = NoBody => ~lookupOk \/ hero_section = {}
            /\ LET dbData == heroDbData(filterSystemFields(b))
                   found == existingHero # NoBody
                   nameless == noName(dbData)
                   refused == ~found /\ nameless
                   row == IF found THEN Merge(existingHero, dbData)
                          ELSE Merge(heroDefaults(nextId), dbData)
                   stored == ~refused /\ writeOk
                   lookupErrs == IF lookupOk THEN 0 ELSE 1
               IN  /\ (stored /\ ~found) => nextId <= MaxRows
                   /\ hero_section' =
                         IF ~stored THEN hero_section
                         ELSE IF found THEN (hero_section \ {existingHero}) \cup {row}
                         ELSE hero_section \cup {row}
                   /\ nextId' = IF stored /\ ~found THEN nextId + 1 ELSE nextId
                   /\ last' = Resp(route, hdr, b, TRUE, TRUE,
                                   IF refused THEN 1 ELSE 2,
                                   lookupErrs + (IF refused \/ stored THEN 0 ELSE 1),
                                   IF refused THEN 400 ELSE IF stored THEN 200 ELSE 500,
                                   NoBody)
                   /\ UNCHANGED <<env, now, issued, skills, projects, contact_messages,
                                  personal_info, experiences, settings, storage, mails,
                                  inflight>>

AdminPutHero == AdminPutHeroOf(HeroBodies)

\* --------------------------------------------------------- admin/messages
\* CHECK (status IN ('unread', 'read', 'replied')) of table contact_messages
messageRowOk(r) == r.status \in {"unread", "read", "replied"}

\* update({ status, updated_at }).eq('id', id).select().single(); updated_at
\* is not a column of the modelled row
updateMessageStatus(id, status, dbOk) ==
    LET hit == RowsWithId(contact_messages, id)
        new == { [r EXCEPT !.status = status] : r \in hit }
    IN  IF dbOk /\ hit # {} /\ \A r \in new : messageRowOk(r)
        THEN (contact_messages \ hit) \cup new
        ELSE contact_messages

\* PUT /messages/:id/read
AdminMarkRead ==
    \E hdr \in Headers, id \in Ids, dbOk \in BOOLEAN :
        LET route == "PUT /admin/messages/:id/read"
            req == [id |-> id, status |-> "read"]
            stored == dbOk /\ RowsWithId(contact_messages, id) # {}
        IN
        IF ~authenticateAdmin(hdr) THEN Unauthorized(route, hdr, req)
        ELSE
            /\ contact_messages' = updateMessageStatus(id, "read", dbOk)
            /\ last' = Resp(route, hdr, req, TRUE, TRUE, 1,
                            IF stored THEN 0 ELSE 1, IF stored THEN 200 ELSE 500,
                            NoBody)
            /\ UNCHANGED <<env, now, issued, skills, projects, personal_info,
                           storage, nextId, mails, untouched>>

\* PATCH /messages/:id/status
AdminPatchMessageStatusOf(statuses) ==
    \E hdr \in Headers, id \in Ids, status \in statuses,
       dbOk \in BOOLEAN :
        LET route == "PATCH /admin/messages/:id/status"
            req == [id |-> id, status |-> status]
            valid == status \in MessageStatuses
            table == updateMessageStatus(id, status, dbOk)
            stored == dbOk /\ RowsWithId(contact_messages, id) # {}
                        /\ messageRowOk([status |-> status])
        IN
        IF ~authenticateAdmin(hdr) THEN Unauthorized(route, hdr, req)
        ELSE
            /\ contact_messages' = IF valid THEN table ELSE contact_messages
            /\ last' = Resp(route, hdr, req, TRUE, TRUE,
                            IF valid THEN 1 ELSE 0,
                            IF valid /\ ~stored THEN 1 ELSE 0,
                            IF ~valid THEN 400 ELSE IF stored THEN 200 ELSE 500,
                            NoBody)
            /\ UNCHANGED <<env, now, issued, skills, projects, personal_info,
                           storage, nextId, mails, untouched>>

AdminPatchMessageStatus == AdminPatchMessageStatusOf(MessageStatuses \cup {"archived"})

\* ---------------------------------------------------------- admin/projects
AdminProjectBodies ==
    {[title |-> "p", description |-> "d"],
     [title |-> "q", description |-> "d", status |-> "planning"],
     [title |-> "r", description |-> "d", status |-> "archived"],
     [status |-> Null]}

\* POST validators: title and description are required
adminProjectCreateValid(b) ==
    /\ Has(b, "title") /\ b.title # ""
    /\ Has(b, "description") /\ b.description # ""

\* status || 'completed'
statusOrDefault(b) ==
    IF ~Has(b, "status") \/ b.status \in {Null, ""} THEN "completed" ELSE b.status

\* projectData of POST /projects
projectData(b) ==
    [title |-> b.title, description |-> b.description,
     technologies |-> IF Has(b, "technologies") THEN b.technologies ELSE <<>>,
     status |-> statusOrDefault(b),
     sort_order |-> IF Has(b, "sort_order") THEN b.sort_order ELSE 0]

\* updateData of PUT /projects/:id: the fields the body lacks are undefined
\* and are not sent; technologies is always computed
updateData(b) ==
    LET sent == (DOMAIN b \cap {"title", "description", "status", "sort_order"})
                  \cup {"technologies"}
    IN  [f \in sent |->
            IF f = "technologies"
            THEN (IF Has(b, "technologies") THEN b.technologies ELSE <<>>)
            ELSE b[f]]

AdminPostProjectOf(bodies) ==
    \E hdr \in Headers, b \in bodies, dbOk \in BOOLEAN :
        LET route == "POST /admin/projects" IN
        IF ~authenticateAdmin(hdr) THEN Unauthorized(route, hdr, b)
        ELSE IF ~adminProjectCreateValid(b)
        THEN /\ last' = Resp(route, hdr, b, TRUE, TRUE, 0, 0, 400, NoBody)
             /\ UNCHANGED <<env, now, issued, skills, projects, contact_messages,
                            personal_info, storage, nextId, mails, untouched>>
        ELSE
        LET row == Merge(projectDefaults(nextId), projectData(b))
            stored == dbOk /\ projectRowOk(row)
        IN  /\ stored => nextId <= MaxRows
            /\ projects' = IF stored THEN projects \cup {row} ELSE projects
            /\ nextId' = IF stored THEN nextId + 1 ELSE nextId
            /\ last' = Resp(route, hdr, b, TRUE, TRUE, 1, IF stored THEN 0 ELSE 1,
                            IF stored THEN 201 ELSE 500, NoBody)
            /\ UNCHANGED <<env, now, issued, skills, contact_messages,
                           personal_info, storage, mails, untouched>>

AdminPostProject == AdminPostProjectOf(AdminProjectBodies)

\* PUT /projects/:id has no validators
AdminPutProjectOf(bodies) ==
    \E hdr \in Headers, id \in Ids, b \in bodies, dbOk \in BOOLEAN :
        LET route == "PUT /admin/projects/:id"
            req == [id |-> id, body |-> b]
        IN
        IF ~authenticateAdmin(hdr) THEN Unauthorized(route, hdr, req)
        ELSE
        LET hit == RowsWithId(projects, id)
            new == { Merge(r, updateData(b)) : r \in hit }
            stored == dbOk /\ hit # {} /\ \A r \in new : projectRowOk(r)
        IN  /\ projects' = IF stored THEN (projects \ hit) \cup new ELSE projects
            /\ last' = Resp(route, hdr, req, TRUE, TRUE, 1, IF stored THEN 0 ELSE 1,
                            IF stored THEN 200 ELSE 500, NoBody)
            /\ UNCHANGED <<env, now, issued, skills, contact_messages,
                           personal_info, storage, nextId, mails, untouched>>

AdminPutProject == AdminPutProjectOf(AdminProjectBodies)

\* bodies with and without the technologies field
TechnologyBodies ==
    {[title |-> "p", description |-> "d", technologies |-> <<"ts">>],
     [title |-> "q", description |-> "d", technologies |-> <<"go", "sql">>],
     [title |-> "r"],
     [sort_order |-> 3]}

\* ------------------------------------------------ middleware/errorHandler
\* An error: whether it is an ApiError and its statusCode, its code property
\* (absent, a string or a number) and its name.
ErrorCodes ==
    {[type |-> "absent", text |-> ""]}
      \cup [type : {"string"}, text : {"PGRST116", "23505", "23503", "42P01"}]
      \cup [type : {"number"}, text : {"23505"}]

ErrorNames ==
    {"Error", "ValidationError", "JsonWebTokenError", "TokenExpiredError",
     "MulterError", "TypeError"}

ApiStatusCodes == {400, 401, 403, 404, 409, 500}

Errors ==
    [isApiError : {TRUE}, statusCode : ApiStatusCodes, code : ErrorCodes,
     name : ErrorNames]
      \cup [isApiError : {FALSE}, statusCode : {0}, code : ErrorCodes,
            name : ErrorNames]

\* variant that looks at the name before the code
errorHandlerNameFirst(err) ==
    IF err.isApiError THEN <<err.statusCode>>
    ELSE IF err.name = "ValidationError" THEN <<400>>
    ELSE IF err.name = "JsonWebTokenError" THEN <<401>>
    ELSE IF err.name = "TokenExpiredError" THEN <<401>>
    ELSE IF err.name = "MulterError" THEN <<400>>
    ELSE IF err.code.type = "string" /\ err.code.text = "PGRST116" THEN <<404>>
    ELSE IF err.code.type = "string" /\ err.code.text = "23505" THEN <<409>>
    ELSE IF err.code.type = "string" /\ err.code.text = "23503" THEN <<400>>
    ELSE <<500>>

\* errorHandler: the statuses of the responses it sends, in order
errorHandler(err) ==
    IF err.isApiError THEN <<err.statusCode>>
    ELSE IF err.code.type = "string" /\ err.code.text = "PGRST116" THEN <<404>>
    ELSE IF err.code.type = "string" /\ err.code.text = "23505" THEN <<409>>
    ELSE IF err.code.type = "string" /\ err.code.text = "23503" THEN <<400>>
    ELSE IF err.name = "ValidationError" THEN <<400>>
    ELSE IF err.name = "JsonWebTokenError" THEN <<401>>
    ELSE IF err.name = "TokenExpiredError" THEN <<401>>
    ELSE IF err.name = "MulterError" THEN <<400>>
    ELSE <<500>>

\* next(err) reaching errorHandler
HandleError ==
    \E err \in Errors :
        LET sent == errorHandler(err) IN
        /\ last' = Resp("errorHandler", NoHeader, err, FALSE, FALSE, 0, 0,
                        sent[Len(sent)], [sent |-> sent])
        /\ UNCHANGED <<env, now, issued, skills, projects, contact_messages,
                       personal_info, storage, nextId, mails, untouched>>

\* ------------------------------------------- upserts handled in two steps
\* PUT /personal-info and PUT /hero await the existence check and then the
\* write; between the two awaits other requests run.  Every store call of
\* these steps succeeds.
UpsertTables == {"personal_info", "hero_section"}

UpsertRows(target) == IF target = "personal_info" THEN personal_info ELSE hero_section

UpsertBody(target) ==
    IF target = "personal_info" THEN [name |-> "G", title |-> "dev"]
    ELSE [name |-> "G", greeting |-> "hi"]

\* select('id').limit(1): the id of a row, 0 for no row
UpsertExistenceCheck ==
    \E q \in Requests, target \in UpsertTables, hdr \in Headers :
        /\ inflight[q].pc = "idle"
        /\ authenticateAdmin(hdr)
        /\ \E existing \in { r.id : r \in UpsertRows(target) } \cup {0} :
              /\ existing = 0 => UpsertRows(target) = {}
              /\ inflight' = [inflight EXCEPT ![q] =
                                [pc |-> "checked", target |-> target, hdr |-> hdr,
                                 existing |-> existing]]
        /\ UNCHANGED <<env, now, issued, skills, projects, contact_messages,
                       personal_info, hero_section, experiences, settings, storage,
                       nextId, mails, last>>

\* the update or insert the handler chose from what its check returned
UpsertWrite ==
    \E q \in Requests :
        LET c == inflight[q]
            found == c.existing # 0
            b == UpsertBody(c.target)
            data == IF c.target = "personal_info" THEN filterJwtFields(b)
                    ELSE heroDbData(filterSystemFields(b))
            defaults == IF c.target = "personal_info" THEN personalDefaults(nextId)
                        ELSE heroDefaults(nextId)
            hit == RowsWithId(UpsertRows(c.target), c.existing)
            table == IF found
                     THEN (UpsertRows(c.target) \ hit) \cup { Merge(r, data) : r \in hit }
                     ELSE UpsertRows(c.target) \cup {Merge(defaults, data)}
        IN  /\ c.pc = "checked"
            /\ ~found => nextId <= MaxRows
            /\ personal_info' = IF c.target = "personal_info" THEN table ELSE personal_info
            /\ hero_section' = IF c.target = "hero_section" THEN table ELSE hero_section
            /\ nextId' = IF found THEN nextId ELSE nextId + 1
            /\ inflight' = [inflight EXCEPT ![q].pc = "done"]
            /\ last' = Resp(IF c.target = "personal_info" THEN "PUT /admin/personal-info"
                            ELSE "PUT /admin/hero",
                            c.hdr, b, TRUE, TRUE, 2,
                            IF c.target = "personal_info" /\ ~found THEN 1 ELSE 0,
                            200, NoBody)
            /\ UNCHANGED <<env, now, issued, skills, projects, contact_messages,
                           experiences, settings, storage, mails>>

\* ----------------------------------------------------------- admin/settings
SettingKeys == {"theme", "title"}

\* req.body: either { settings: ... } or the keys themselves; settings
\* carries whether the submitted value is an object
SettingsBodies ==
    {[settings |-> [isObject |-> TRUE, entries |-> [theme |-> "dark", title |-> "x"]]],
     [settings |-> [isObject |-> TRUE, entries |-> [title |-> "y"]]],
     [settings |-> [isObject |-> FALSE, entries |-> [title |-> "z"]]],
     [theme |-> "light", iat |-> "1"]}

\* body('settings').optional().isObject()
settingsValid(b) == Has(b, "settings") => b.settings.isObject

\* filteredData.settings || filteredData
settingsToUpdate(b) ==
    LET filteredData == filterJwtFields(b)
    IN  IF Has(filteredData, "settings") THEN filteredData.settings.entries
        ELSE filteredData

\* variant in which one failed upsert undoes the others
applyUpsertsAllOrNothing(rows, sent, failed) ==
    IF DOMAIN sent \cap failed # {} THEN rows
    ELSE { r \in rows : r.key \notin DOMAIN sent }
           \cup { [key |-> k, value |-> sent[k]] : k \in DOMAIN sent }

\* upsert({ key, value }, { onConflict: 'key' }) for every key, each on its
\* own: the keys in failed return an error, the others are stored
applyUpserts(rows, sent, failed) ==
    LET stored == DOMAIN sent \ failed
    IN  { r \in rows : r.key \notin stored }
          \cup { [key |-> k, value |-> sent[k]] : k \in stored }

\* PUT /settings: the upserts run side by side under Promise.all, then the
\* table is read back
AdminPutSettingsOf(bodies) ==
    \E hdr \in Headers, b \in bodies, failing \in SUBSET SettingKeys,
       selectOk \in BOOLEAN :
        LET route == "PUT /admin/settings" IN
        IF ~authenticateAdmin(hdr) THEN Unauthorized(route, hdr, b)
        ELSE IF ~settingsValid(b)
        THEN /\ last' = Resp(route, hdr, b, TRUE, TRUE, 0, 0, 400, NoBody)
             /\ UNCHANGED <<env, now, issued, skills, projects, contact_messages,
                            personal_info, storage, nextId, mails, untouched>>
        ELSE
        LET sent == settingsToUpdate(b)
            failed == DOMAIN sent \cap failing
            read == failed = {}
            ok == read /\ selectOk
        IN  /\ settings' = applyUpserts(settings, sent, failed)
            /\ last' = Resp(route, hdr, b, TRUE, TRUE,
                            Cardinality(DOMAIN sent) + (IF read THEN 1 ELSE 0),
                            Cardinality(failed) + (IF read /\ ~selectOk THEN 1 ELSE 0),
                            IF ok THEN 200 ELSE 500,
                            [failed |-> failed])
            /\ UNCHANGED <<env, now, issued, skills, projects, contact_messages,
                           personal_info, hero_section, experiences, storage, nextId,
                           mails, inflight>>

AdminPutSettings == AdminPutSettingsOf(SettingsBodies)

\* -------------------------------------------------------- admin/experiences
\* A string is the sequence of its characters.
NewLine == "\n"

Chars == {"a", " ", NewLine}

\* every string of at most MaxDescLen characters, and three longer ones: two
\* lines, a padded line, a line followed by empty lines
Strings ==
    UNION { [1..n -> Chars] : n \in 0..MaxDescLen }
      \cup {<<"a", NewLine, "a">>, <<" ", "a", " ">>, <<"a", NewLine, NewLine>>}

\* String.prototype.split('\n'): the pieces between the line feeds
RECURSIVE split(_)
split(s) ==
    IF \A i \in DOMAIN s : s[i] # NewLine THEN <<s>>
    ELSE LET i == CHOOSE k \in DOMAIN s :
                      s[k] = NewLine /\ \A j \in 1..(k - 1) : s[j] # NewLine
         IN  <<SubSeq(s, 1, i - 1)>> \o split(SubSeq(s, i + 1, Len(s)))

\* String.prototype.trim() on a piece, whose only white space is the blank
RECURSIVE trim(_)
trim(line) ==
    IF line = <<>> THEN line
    ELSE IF Head(line) = " " THEN trim(Tail(line))
    ELSE IF line[Len(line)] = " " THEN trim(SubSeq(line, 1, Len(line) - 1))
    ELSE line

\* .filter(line => line.length > 0)
RECURSIVE nonEmpty(_)
nonEmpty(lines) ==
    IF lines = <<>> THEN <<>>
    ELSE IF Head(lines) = <<>> THEN nonEmpty(Tail(lines))
    ELSE <<Head(lines)>> \o nonEmpty(Tail(lines))

\* Array.prototype.join('\n')
RECURSIVE join(_)
join(lines) ==
    IF lines = <<>> THEN <<>>
    ELSE IF Len(lines) = 1 THEN lines[1]
    ELSE lines[1] \o <<NewLine>> \o join(Tail(lines))

\* a description as submitted or stored: a string, an array of lines, or
\* nothing (undefined in a body, NULL in a row)
String(s) == [kind |-> "string", chars |-> s, lines |-> <<>>]

Array(lines) == [kind |-> "array", chars |-> <<>>, lines |-> lines]

NoDescription == [kind |-> "none", chars |-> <<>>, lines |-> <<>>]

Descriptions == { String(s) : s \in Strings } \cup {NoDescription}

\* processDescription on the description of the body: an empty string is
\* falsy and stays as it is
processDescription(d) ==
    IF d.kind = "string" /\ d.chars # <<>>
    THEN Array(nonEmpty([i \in DOMAIN split(d.chars) |-> trim(split(d.chars)[i])]))
    ELSE d

\* the description the list handler returns for a stored one
describe(d) == IF d.kind = "array" THEN String(join(d.lines)) ELSE String(<<>>)

ExperienceTypes == {"experience", "education"}

\* description TEXT[] takes an array or NULL; type has a CHECK
experienceRowOk(r) == r.description.kind # "string" /\ r.type \in ExperienceTypes

\* POST /experiences with title, company and period given, the description
\* drawn from descs
AdminPostExperienceOf(descs) ==
    \E hdr \in Headers, type \in ExperienceTypes \cup {"internship"},
       d \in descs, dbOk \in BOOLEAN :
        LET route == "POST /admin/experiences"
            req == [type |-> type, description |-> d]
        IN
        IF ~authenticateAdmin(hdr) THEN Unauthorized(route, hdr, req)
        ELSE IF type \notin ExperienceTypes
        THEN /\ last' = Resp(route, hdr, req, TRUE, TRUE, 0, 0, 400, NoBody)
             /\ UNCHANGED <<env, now, issued, skills, projects, contact_messages,
                            personal_info, storage, nextId, mails, untouched>>
        ELSE
        LET row == [id |-> nextId, type |-> type, description |-> processDescription(d)]
            stored == dbOk /\ experienceRowOk(row)
        IN  /\ stored => nextId <= MaxRows
            /\ experiences' = IF stored THEN experiences \cup {row} ELSE experiences
            /\ nextId' = IF stored THEN nextId + 1 ELSE nextId
            /\ last' = Resp(route, hdr, req, TRUE, TRUE, 1, IF stored THEN 0 ELSE 1,
                            IF stored THEN 201 ELSE 500,
                            [id |-> nextId, reached |-> dbOk])
            /\ UNCHANGED <<env, now, issued, skills, projects, contact_messages,
                           personal_info, hero_section, settings, storage, mails,
                           inflight>>

AdminPostExperience == AdminPostExperienceOf(Descriptions)

\* PUT /experiences/:id carrying a description
AdminPutExperience ==
    \E hdr \in Headers, id \in Ids, d \in Descriptions \ {NoDescription},
       dbOk \in BOOLEAN :
        LET route == "PUT /admin/experiences/:id"
            req == [id |-> id, description |-> d]
        IN
        IF ~authenticateAdmin(hdr) THEN Unauthorized(route, hdr, req)
        ELSE
        LET hit == RowsWithId(experiences, id)
            new == { [r EXCEPT !.description = processDescription(d)] : r \in hit }
            stored == dbOk /\ hit # {} /\ \A r \in new : experienceRowOk(r)
        IN  /\ experiences' = IF stored THEN (experiences \ hit) \cup new ELSE experiences
            /\ last' = Resp(route, hdr, req, TRUE, TRUE, 1, IF stored THEN 0 ELSE 1,
                            IF stored THEN 200 ELSE 500,
                            [id |-> id, reached |-> dbOk /\ hit # {}])
            /\ UNCHANGED <<env, now, issued, skills, projects, contact_messages,
                           personal_info, hero_section, settings, storage, nextId,
                           mails, inflight>>

\* GET /experiences: every row with its description joined; the order by
\* start_date is left out, the rows are returned as a set
AdminGetExperiences ==
    \E hdr \in Headers, dbOk \in BOOLEAN :
        LET route == "GET /admin/experiences" IN
        IF ~authenticateAdmin(hdr) THEN Unauthorized(route, hdr, NoBody)
        ELSE
            /\ last' = Resp(route, hdr, NoBody, TRUE, TRUE, 1,
                            IF dbOk THEN 0 ELSE 1, IF dbOk THEN 200 ELSE 500,
                            [rows |-> IF dbOk
                                      THEN { [r EXCEPT !.description = describe(@)] :
                                               r \in experiences }
                                      ELSE {}])
            /\ UNCHANGED <<env, now, issued, skills, projects, contact_messages,
                           personal_info, storage, nextId, mails, untouched>>

\* ------------------------------------------------- POST /resume, step by step
\* The handler awaits the list and the remove of resumes/, then awaits the
\* upload; another request can run between the two.  The first step: list
\* resumes/ and remove what the list returned, errors ignored.
ResumeCleanup ==
    \E q \in Requests, listOk, removeOk \in BOOLEAN :
        LET existingFiles == IF listOk THEN Folder("resumes") ELSE {}
            removed == IF removeOk THEN existingFiles ELSE {}
            errs == (IF listOk THEN 0 ELSE 1)
                    + (IF existingFiles # {} /\ ~removeOk THEN 1 ELSE 0)
        IN  /\ inflight[q].pc = "idle"
            /\ storage' = storage \ removed
            /\ inflight' = [inflight EXCEPT ![q] =
                              [pc |-> "cleaned", target |-> "resumes", hdr |-> NoHeader,
                               existing |-> Cardinality(existingFiles), errs |-> errs]]
            /\ UNCHANGED <<env, now, issued, skills, projects, contact_messages,
                           personal_info, hero_section, experiences, settings,
                           nextId, mails, last>>

\* the second step: upload under a fresh name and answer
ResumeStore ==
    \E q \in Requests, uploadOk \in BOOLEAN :
        LET c == inflight[q]
            fileName == [folder |-> "resumes", at |-> now, id |-> nextId]
        IN  /\ c.pc = "cleaned"
            /\ uploadOk => nextId <= MaxFiles
            /\ storage' = IF uploadOk THEN storage \cup {fileName} ELSE storage
            /\ nextId' = IF uploadOk THEN nextId + 1 ELSE nextId
            /\ inflight' = [inflight EXCEPT ![q].pc = "done"]
            /\ last' = Resp("POST /uploads/resume", NoHeader,
                            [mimetype |-> "application/pdf"], FALSE, TRUE,
                            1 + (IF c.existing > 0 THEN 1 ELSE 0) + 1,
                            c.errs + (IF uploadOk THEN 0 ELSE 1),
                            IF uploadOk THEN 200 ELSE 500,
                            IF uploadOk THEN [fileName |-> fileName] ELSE NoBody)
            /\ UNCHANGED <<env, now, issued, skills, projects, contact_messages,
                           personal_info, hero_section, experiences, settings, mails>>

\* ------------------------------------------------------- GET /admin/hero
\* bodies for the round trip through PUT and GET; the strings are strings and
\* typing_texts is an array, so the validators accept each of them
HeroRoundTripBodies ==
    {[name |-> "G", greeting |-> "hi", quote |-> "q",
      typing_texts |-> [isArray |-> TRUE, items |-> <<"dev">>]],
     [name |-> "H", greeting |-> ""],
     [quote |-> "r", id |-> 9, created_at |-> 5]}

\* the row mapped to the frontend fields: hero.greeting || 'Hello, I\'m',
\* hero.name || '', hero.titles || [], hero.description || ''
heroResponse(hero) ==
    [id |-> hero.id,
     greeting |-> IF hero.greeting = "" THEN "Hello, I'm" ELSE hero.greeting,
     name |-> hero.name,
     typing_texts |-> hero.titles,
     quote |-> hero.description,
     updated_at |-> hero.updated_at]

\* GET /hero: select('*').limit(1).maybeSingle() returns some row, or none
\* from an empty table; an error is thrown and answered 500
AdminGetHero ==
    \E hdr \in Headers, dbOk \in BOOLEAN :
        LET route == "GET /admin/hero" IN
        IF ~authenticateAdmin(hdr) THEN Unauthorized(route, hdr, NoBody)
        ELSE
        \E hero \in (IF dbOk THEN hero_section ELSE {}) \cup {NoBody} :
            /\ hero = NoBody => ~dbOk \/ hero_section = {}
            /\ last' = Resp(route, hdr, NoBody, TRUE, TRUE, 1,
                            IF dbOk THEN 0 ELSE 1, IF dbOk THEN 200 ELSE 500,
                            IF hero = NoBody THEN NoBody ELSE heroResponse(hero))
            /\ UNCHANGED <<env, now, issued, skills, projects, contact_messages,
                           personal_info, storage, nextId, mails, untouched>>

\* ---------------------------------------------- admin/dashboard/activity
\* the four selects of GET /activity: the table each names and the type its
\* rows are given
ActivityQueries ==
    <<[table |-> "projects", type |-> "project"],
      [table |-> "skills", type |-> "skill"],
      [table |-> "experiences", type |-> "experience"],
      [table |-> "messages", type |-> "message"]>>

\* req.query.limit: absent, not a number, or an integer
LimitQueries ==
    {[kind |-> "absent", n |-> 0], [kind |-> "text", n |-> 0]}
    \cup { [kind |-> "int", n |-> k] : k \in -1..2 }

\* parseInt(req.query.limit as string) || 10
parseLimit(q) == IF q.kind = "int" /\ q.n # 0 THEN q.n ELSE 10

\* updated_at || created_at; a row modelled without its timestamps counts as
\* written at 0
date(r) ==
    IF Has(r, "updated_at") THEN r.updated_at
    ELSE IF Has(r, "created_at") THEN r.created_at
    ELSE 0

UpdatedDescending(a, b) == date(a) > date(b)

\* Array.prototype.slice(0, limit)
slice(s, limit) ==
    IF limit >= 0 THEN SubSeq(s, 1, IF limit < Len(s) THEN limit ELSE Len(s))
    ELSE SubSeq(s, 1, IF Len(s) + limit > 0 THEN Len(s) + limit ELSE 0)

\* .order('updated_at', { ascending: false }).limit(limit) on a table; a
\* negative limit is taken as no limit
recentRows(table, limit) ==
    { IF limit >= 0 THEN slice(s, limit) ELSE s :
        s \in Orderings(TableRows(table), UpdatedDescending) }

\* { type, item, date } of a returned row
activity(type, r) == [type |-> type, id |-> r.id, date |-> date(r)]

NewestFirst(a, b) == a.date > b.date

\* GET /activity: four selects side by side, no result's error is read; the
\* rows are merged, sorted by date and cut to limit
AdminGetActivity ==
    \E hdr \in Headers, q \in LimitQueries, failing \in SUBSET {1, 2, 3} :
        LET route == "GET /admin/dashboard/activity"
            req == [limit |-> q]
        IN
        IF ~authenticateAdmin(hdr) THEN Unauthorized(route, hdr, req)
        ELSE
        LET limit == parseLimit(q)
            ok(i) == ActivityQueries[i].table \in SchemaTables /\ i \notin failing
            errs == Cardinality({ i \in DOMAIN ActivityQueries : ~ok(i) })
            \* data || []
            rows(i) == IF ok(i) THEN recentRows(ActivityQueries[i].table, limit)
                       ELSE {<<>>}
            entries(i, result) ==
                { activity(ActivityQueries[i].type, result[k]) : k \in DOMAIN result }
        IN  \E recentProjects \in rows(1), recentSkills \in rows(2),
               recentExperiences \in rows(3), recentMessages \in rows(4) :
              /\ \E sorted \in Orderings(
                       entries(1, recentProjects) \cup entries(2, recentSkills)
                         \cup entries(3, recentExperiences)
                         \cup entries(4, recentMessages),
                       NewestFirst) :
                    last' = Resp(route, hdr, req, TRUE, TRUE,
                                 Len(ActivityQueries), errs, 200,
                                 [activities |-> slice(sorted, limit)])
              /\ UNCHANGED <<env, now, issued, skills, projects, contact_messages,
                             personal_info, storage, nextId, mails, untouched>>

\* ----------------------------------------------------- GET /api/settings
\* the keys the public handler returns, each with the default of its ??
PublicDefaults ==
    [maintenance_mode |-> "false", maintenance_message |-> "under maintenance",
     visible_sections |-> "all", show_footer |-> "true",
     show_navigation |-> "true", enable_animations |-> "true",
     contact_form_enabled |-> "true", show_social_links |-> "true",
     show_resume_button |-> "true", default_theme |-> "system",
     accent_color |-> "#3B82F6"]

PublicKeys == DOMAIN PublicDefaults

\* a JSON value of the column value JSONB: a scalar with its text, or an
\* object with its members
Scalar(v) == [kind |-> "scalar", v |-> v, members |-> {}]

Object(members) == [kind |-> "object", v |-> "", members |-> members]

Proto == "__proto__"

\* bodies of PUT /admin/settings that write public keys, a private key, and
\* the key __proto__
PublicSettingsBodies ==
    {[settings |-> [isObject |-> TRUE,
                    entries |-> [maintenance_mode |-> Scalar("false"),
                                 default_theme |-> Scalar("dark")]]],
     [settings |-> [isObject |-> TRUE,
                    entries |-> [maintenance_mode |-> Scalar("true")]]],
     [settings |-> [isObject |-> TRUE,
                    entries |-> [api_secret |-> Scalar("s3cret")]]],
     [settings |-> [isObject |-> TRUE,
                    entries |-> [k \in {Proto} |->
                                   Object({[key |-> "maintenance_mode", v |-> "true"]})]]]}

\* settings.reduce((acc, setting) => { acc[setting.key] = setting.value;
\* return acc }, {}): the assignment to the key __proto__ sets the prototype
\* of acc to the value when it is an object, and creates no own property
reduce(rows) ==
    [own |-> { r \in rows : r.key # Proto },
     proto |-> UNION { r.value.members :
                          r \in { x \in rows : x.key = Proto /\ x.value.kind = "object" } }]

Undefined == "<undefined>"

\* settingsObj[k]: the own property, else the one inherited from the prototype
get(settingsObj, k) ==
    IF \E r \in settingsObj.own : r.key = k
    THEN (CHOOSE r \in settingsObj.own : r.key = k).value.v
    ELSE IF \E p \in settingsObj.proto : p.key = k
    THEN (CHOOSE p \in settingsObj.proto : p.key = k).v
    ELSE Undefined

\* the object the public handler returns: settingsObj.k ?? default
publicSettings(rows) ==
    LET settingsObj == reduce(rows)
    IN  [k \in PublicKeys |->
            IF get(settingsObj, k) = Undefined THEN PublicDefaults[k]
            ELSE get(settingsObj, k)]

\* GET /settings of the public router
PublicGetSettings ==
    \E dbOk \in BOOLEAN :
        /\ last' = Resp("GET /api/settings", NoHeader, NoBody, FALSE, TRUE, 1,
                        IF dbOk THEN 0 ELSE 1, IF dbOk THEN 200 ELSE 500,
                        IF dbOk THEN publicSettings(settings) ELSE NoBody)
        /\ UNCHANGED <<env, now, issued, skills, projects, contact_messages,
                       personal_info, storage, nextId, mails, untouched>>

\* --------------------------------------------------- DELETE /admin/.../:id
\* the tables whose admin router has a DELETE /:id
DeleteTables == {"skills", "projects", "experiences", "contact_messages"}

deleteRoute(table) ==
    CASE table = "skills" -> "DELETE /admin/skills/:id"
      [] table = "projects" -> "DELETE /admin/projects/:id"
      [] table = "experiences" -> "DELETE /admin/experiences/:id"
      [] table = "contact_messages" -> "DELETE /admin/messages/:id"

DeleteRoutes == { deleteRoute(t) : t \in DeleteTables }

\* variant that removes every row up to the id
deleteUpToId(rows, id) == { r \in rows : r.id > id }

\* delete().eq('id', id): the rows that stay
deleteById(rows, id) == { r \in rows : r.id # id }

\* DELETE /:id of the four admin routers: the error of the delete is thrown
\* and answered 500, a delete that matches no row is no error
AdminDelete ==
    \E hdr \in Headers, table \in DeleteTables, id \in Ids, dbOk \in BOOLEAN :
        LET route == deleteRoute(table)
            req == [id |-> id]
            rows(t) == IF dbOk /\ t = table THEN deleteById(TableRows(t), id)
                       ELSE TableRows(t)
        IN
        IF ~authenticateAdmin(hdr) THEN Unauthorized(route, hdr, req)
        ELSE
            /\ skills' = rows("skills")
            /\ projects' = rows("projects")
            /\ experiences' = rows("experiences")
            /\ contact_messages' = rows("contact_messages")
            /\ last' = Resp(route, hdr, req, TRUE, TRUE, 1,
                            IF dbOk THEN 0 ELSE 1, IF dbOk THEN 200 ELSE 500,
                            IF dbOk THEN [message |-> table] ELSE NoBody)
            /\ UNCHANGED <<env, now, issued, personal_info, hero_section, settings,
                           storage, nextId, mails, inflight>>

\* ------------------------------------------------------------ specification
\* login and the guarded skill routes; the mail relay plays no part
AuthEnvs == { e \in Envs : ~e.smtp }

InitAuth == InitWith(AuthEnvs)

NextAuth == Tick \/ Login \/ AdminPostSkill \/ AdminPutSkill

SpecAuth == InitAuth /\ [][NextAuth]_vars

\* the contact form; the credentials and the clock play no part
ContactEnvs ==
    { e \in Envs : ~e.production /\ e.ADMIN_USERNAME = "" /\ e.ADMIN_PASSWORD = ""
                    /\ e.JWT_SECRET = "" }

InitContact == InitWith(ContactEnvs)

NextContact == ContactPost \/ ContactPostInline

SpecContact == InitContact /\ [][NextContact]_vars

\* the project routes mounted at /api/projects
NextProjects ==
    \/ Tick
    \/ PublicGetProjects
    \/ PublicPostProject
    \/ PublicPutProject
    \/ PublicDeleteProject

SpecProjects == InitContact /\ [][NextProjects]_vars

\* the routes the README lists as admin endpoints, and the contact form that
\* fills the inbox
NextReadme ==
    \/ ContactPostBase
    \/ ContactGet
    \/ ContactPatchStatus
    \/ PublicPostProject
    \/ PublicPutProject
    \/ PublicDeleteProject

SpecReadme == InitContact /\ [][NextReadme]_vars

\* development defaults, no mail relay
DevEnv ==
    [production |-> FALSE, ADMIN_USERNAME |-> "", ADMIN_PASSWORD |-> "",
     JWT_SECRET |-> "", smtp |-> FALSE]

InitDev == InitWith({DevEnv})

\* file uploads
NextUpload == Tick \/ UploadImage \/ UploadResume \/ DeleteFile

SpecUpload == InitDev /\ [][NextUpload]_vars

\* the admin handlers that read the store without looking at its errors
NextAdmin == Login \/ AdminPostSkill \/ AdminGetStats \/ AdminPutPersonalInfo

SpecAdmin == InitDev /\ [][NextAdmin]_vars

\* reading and removing single projects
NextLookup ==
    \/ Tick
    \/ PublicPostProject
    \/ PublicGetProject
    \/ PublicDeleteProject

SpecLookup == InitDev /\ [][NextLookup]_vars

\* the tables meant to hold one row
NextSingleton == Login \/ AdminPutPersonalInfo \/ AdminPutHero

SpecSingleton == InitDev /\ [][NextSingleton]_vars

\* contact messages and their status
NextMessages ==
    \/ Login
    \/ ContactPostBase
    \/ AdminMarkRead
    \/ AdminPatchMessageStatus

SpecMessages == InitDev /\ [][NextMessages]_vars

\* the admin's project routes
NextAdminProjects == Login \/ AdminPostProject \/ AdminPutProject

SpecAdminProjects == InitDev /\ [][NextAdminProjects]_vars

\* the admin's skill routes
NextSkills == Login \/ AdminPostSkillLevels \/ AdminPutSkillLevels

SpecSkills == InitDev /\ [][NextSkills]_vars

\* errorHandler applied to every error of Errors
NextErrorHandler == HandleError

SpecErrorHandler == InitDev /\ [][NextErrorHandler]_vars

\* concurrent upserts of the one-row tables
NextRace == Login \/ UpsertExistenceCheck \/ UpsertWrite

SpecRace == InitDev /\ [][NextRace]_vars

\* the settings key-value store
NextSettings == Login \/ AdminPutSettings

SpecSettings == InitDev /\ [][NextSettings]_vars

\* the admin's experience routes
NextExperiences ==
    \/ Login
    \/ AdminPostExperience
    \/ AdminPutExperience
    \/ AdminGetExperiences

SpecExperiences == InitDev /\ [][NextExperiences]_vars

\* the handlers that validate their input before they reach the store, each
\* with a body its validators accept and a body they reject
ValidationForms == {BaseForm, [BaseForm EXCEPT !.name = ""]}

ValidationSkills == {b \in SkillBodies : Has(b, "name")}

ValidationPersonal == {b \in PersonalBodies : Has(b, "name")}

ValidationHero == {b \in HeroBodies : Has(b, "name") => b.name # ""}

ValidationStatuses == {"read", "archived"}

ValidationProjects == {b \in AdminProjectBodies : ~Has(b, "status") \/ b.status = Null}

ValidationDescriptions == {NoDescription, String(<<"a">>)}

ValidationSettings == {b \in SettingsBodies : Has(b, "settings") /\ ~Has(b.settings.entries, "theme")}

NextValidation ==
    \/ Login
    \/ ContactPostOf(ValidationForms)
    \/ AdminPostSkillOf(ValidationSkills)
    \/ AdminPutPersonalInfoOf(ValidationPersonal)
    \/ AdminPutHeroOf(ValidationHero)
    \/ AdminPatchMessageStatusOf(ValidationStatuses)
    \/ AdminPostProjectOf(ValidationProjects)
    \/ AdminPostExperienceOf(ValidationDescriptions)
    \/ AdminPutSettingsOf(ValidationSettings)

SpecValidation == InitDev /\ [][NextValidation]_vars

\* creating projects with technologies and updating them
NextProjectUpdate ==
    \/ Login
    \/ AdminPostProjectOf(TechnologyBodies)
    \/ AdminPutProjectOf(TechnologyBodies)

SpecProjectUpdate == InitDev /\ [][NextProjectUpdate]_vars

\* contact messages arriving and being read, and the dashboard statistics
NextStats ==
    \/ Login
    \/ ContactPostBase
    \/ AdminMarkRead
    \/ AdminGetStats

SpecStats == InitDev /\ [][NextStats]_vars

\* resume uploads, one after the other and side by side
NextResume ==
    \/ Tick
    \/ UploadResume
    \/ ResumeCleanup
    \/ ResumeStore

SpecResume == InitDev /\ [][NextResume]_vars

\* the hero section written and read back
NextHero ==
    \/ Login
    \/ AdminPutHeroOf(HeroRoundTripBodies)
    \/ AdminGetHero

SpecHero == InitDev /\ [][NextHero]_vars

\* projects and contact messages arriving over time, and the activity feed
NextActivity ==
    \/ Tick
    \/ Login
    \/ AdminPostProjectOf(ValidationProjects)
    \/ ContactPostBase
    \/ AdminGetActivity

SpecActivity == InitDev /\ [][NextActivity]_vars

\* settings written by the admin and read by the public
NextPublicSettings ==
    \/ Login
    \/ AdminPutSettingsOf(PublicSettingsBodies)
    \/ PublicGetSettings

SpecPublicSettings == InitDev /\ [][NextPublicSettings]_vars

\* rows created in the four tables and deleted by the admin
NextDelete ==
    \/ Login
    \/ AdminPostSkillOf(ValidationSkills)
    \/ AdminPostProjectOf(ValidationProjects)
    \/ AdminPostExperienceOf(ValidationDescriptions)
    \/ ContactPostBase
    \/ AdminDelete

SpecDelete == InitDev /\ [][NextDelete]_vars

\* the whole program
Next ==
    \/ NextAuth
    \/ NextContact
    \/ NextProjects
    \/ NextReadme
    \/ NextUpload
    \/ NextAdmin
    \/ NextLookup
    \/ NextSingleton
    \/ NextMessages
    \/ NextAdminProjects
    \/ NextSkills
    \/ NextErrorHandler
    \/ NextRace
    \/ NextSettings
    \/ NextExperiences
    \/ NextValidation
    \/ NextProjectUpdate
    \/ NextStats
    \/ NextResume
    \/ NextHero
    \/ NextActivity
    \/ NextPublicSettings
    \/ NextDelete

Spec == Init /\ [][Next]_vars

\* ------------------------------------------------------------------ claims
GuardedRoutes ==
    {"POST /admin/skills", "PUT /admin/skills/:id", "GET /admin/dashboard/stats",
     "PUT /admin/personal-info"}

\* no token, or one that jwt.verify refuses at time t
FailsVerification(token, t) ==
    \/ token.kind # "jwt"
    \/ token.sig # getJwtSecret
    \/ t >= token.exp

\* C1: a request to a guarded route without a token, or with a token that
\* fails verification, is answered 401, its handler never runs, it issues no
\* store call and no table row changes.
C1_UnauthenticatedIsRejected ==
    [][(last'.route \in GuardedRoutes /\ FailsVerification(last'.token, last'.at))
         => /\ last'.status = 401
            /\ ~last'.handlerRan
            /\ last'.dbCalls = 0
            /\ UNCHANGED tables]_vars

\* an expired token of a real login is refused while the table holds a row
C1_Witness ==
    /\ last.route = "PUT /admin/skills/:id"
    /\ last.token \in issued
    /\ last.at >= last.token.exp
    /\ last.status = 401
    /\ skills # {}

CredentialsUnset == env.production /\ (adminUsername = "" \/ adminPassword = "")

\* C2 as stated: a token only for the configured pair, 401 for every other
\* non-empty pair, 400 for an empty field, and in production with unset
\* credentials 500 for every attempt.
C2_AsStated ==
    last.route = "login" =>
        LET u == last.req.username
            p == last.req.password
        IN  /\ last.body.token.kind = "jwt" => u = adminUsername /\ p = adminPassword
            /\ CredentialsUnset => last.status = 500 /\ last.body.token.kind = "empty"
            /\ ~CredentialsUnset =>
                  /\ (u = "" \/ p = "") => last.status = 400
                  /\ (u # "" /\ p # "" /\ ~(u = adminUsername /\ p = adminPassword))
                        => last.status = 401 /\ last.body.token.kind = "empty"

\* C2 amended: an empty username or password is answered 400 in every
\* environment; in production with unset credentials every attempt with a
\* non-empty pair is answered 500 and no token is ever issued; otherwise a
\* token is returned only for the configured pair and every other non-empty
\* pair is answered 401 with no token.
C2_LoginOutcome ==
    last.route = "login" =>
        LET u == last.req.username
            p == last.req.password
        IN  /\ last.body.token.kind = "jwt" =>
                  u = adminUsername /\ p = adminPassword /\ ~CredentialsUnset
            /\ (u = "" \/ p = "") => last.status = 400 /\ last.body.token.kind = "empty"
            /\ (u # "" /\ p # "" /\ CredentialsUnset)
                  => last.status = 500 /\ last.body.token.kind = "empty"
            /\ (u # "" /\ p # "" /\ ~CredentialsUnset
                  /\ ~(u = adminUsername /\ p = adminPassword))
                  => last.status = 401 /\ last.body.token.kind = "empty"

\* a non-empty pair in production with the password unset
C2_Witness ==
    /\ last.route = "login"
    /\ env.production /\ env.ADMIN_PASSWORD = ""
    /\ last.req.username # "" /\ last.req.password # ""
    /\ last.status = 500

\* C3: a token of a successful login is accepted by authenticateAdmin, with
\* the identity {username, role: 'admin'} attached, at every time less than
\* ExpiresIn after it was issued, and answered 401 at every later time.
C3_TokenLifetime ==
    (last.route \in GuardedRoutes /\ last.token \in issued) =>
        /\ last.at - last.token.iat < ExpiresIn =>
              /\ last.handlerRan
              /\ last.status # 401
              /\ last.adminUser.username = adminUsername
              /\ last.adminUser.role = "admin"
        /\ last.at - last.token.iat > ExpiresIn =>
              last.status = 401 /\ ~last.handlerRan

\* a token of a real login presented after its lifetime
C3_Witness ==
    /\ last.route \in GuardedRoutes
    /\ last.token \in issued
    /\ last.at - last.token.iat > ExpiresIn
    /\ last.status = 401

\* the domain of an address: the text after its last '@', in lower case
DomainOf(email) == toLowerCase(email[Len(email)])

IsDisposable(email) == Len(email) >= 2 /\ DomainOf(email) \in disposableEmailDomains

\* C4: POST /contact with an address whose domain is in the disposable list
\* is answered 400, inserts no row and attempts no notification.
C4_DisposableRejected ==
    (last.route = "POST /contact" /\ IsDisposable(last.req.email)) =>
        /\ last.status = 400
        /\ last.dbCalls = 0
        /\ last.mail = "none"

\* the form passes every validator of the route
FormAccepted(f) == contactValid(f) /\ ~validateEmailDomain(f.email)

\* C5 as stated: POST /contact with valid fields is answered 201 and its row
\* is persisted.
C5_AsStated ==
    (last.route = "POST /contact" /\ FormAccepted(last.req)) =>
        /\ last.status = 201
        /\ \E r \in contact_messages : r.id = last.body.id /\ r.status = "unread"

\* C5 amended: POST /contact with valid fields whose insert succeeds is
\* answered 201, exactly one new row holding the submitted fields with status
\* 'unread' is persisted and the id of the response is the id of that row;
\* when the insert returns an error the answer is 500 and no row is persisted.
C5_ValidFormPersisted ==
    [][(last'.route = "POST /contact" /\ FormAccepted(last'.req))
         => IF last'.dbErrors = 0
            THEN /\ last'.status = 201
                 /\ \E row \in contact_messages' :
                       /\ row \notin contact_messages
                       /\ \A r \in contact_messages : r.id # row.id
                       /\ contact_messages' = contact_messages \cup {row}
                       /\ row.id = last'.body.id
                       /\ row.name = last'.req.name
                       /\ row.email = last'.req.email
                       /\ row.subject = last'.req.subject
                       /\ row.message = last'.req.message
                       /\ row.phone = last'.req.phone
                       /\ row.status = "unread"
            ELSE /\ last'.status = 500
                 /\ contact_messages' = contact_messages]_vars

\* a second message is accepted and stored next to the first
C5_Witness ==
    /\ last.route = "POST /contact"
    /\ last.status = 201
    /\ Cardinality(contact_messages) = 2
    /\ \E r \in contact_messages : r.id = last.body.id /\ r.status = "unread"

ContactRoutes == {"POST /contact", "POST /contact (inline mailer)"}

\* C6: whatever the notification does (sent, rejected by the relay, no
\* transporter), a POST /contact whose row was persisted is answered 201 and
\* the row holds what was submitted.
C6_MailNeverFailsRequest ==
    (last.route \in ContactRoutes /\ last.dbCalls = 1 /\ last.dbErrors = 0) =>
        /\ last.mail \in {"sent", "rejected", "disabled"}
        /\ last.status = 201
        /\ \E r \in contact_messages :
              /\ r.id = last.body.id
              /\ r.name = last.req.name /\ r.email = last.req.email
              /\ r.subject = last.req.subject /\ r.message = last.req.message
              /\ r.status = "unread"

\* the relay rejected the notification of a stored message
C6_Witness ==
    /\ last.route = "POST /contact"
    /\ last.mail = "rejected"
    /\ [id |-> last.body.id, outcome |-> "rejected"] \in mails
    /\ last.status = 201

\* C7: GET /api/projects answers 200 with all the project rows in an array
\* sorted by sort_order ascending (whenever the select returns no error).
C7_ProjectsInConfiguredOrder ==
    (last.route = "GET /api/projects" /\ last.dbErrors = 0) =>
        /\ last.status = 200
        /\ ~last.body.wrapped
        /\ { last.body.rows[i] : i \in DOMAIN last.body.rows } = projects
        /\ \A i, j \in DOMAIN last.body.rows :
              i < j => last.body.rows[i].sort_order <= last.body.rows[j].sort_order

\* C8: a resume upload whose file is not application/pdf is answered 400 and
\* no storage call is made for it.
C8_NonPdfIs400 ==
    (last.route = "POST /uploads/resume"
       /\ last.req.mimetype \notin {"application/pdf", NoFile}) =>
        /\ last.status = 400
        /\ last.dbCalls = 0

ReadmeAdminRoutes ==
    {"POST /api/projects", "PUT /api/projects/:id", "DELETE /api/projects/:id",
     "GET /api/contact", "PATCH /api/contact/:id/status"}

\* C9: without a valid admin token the endpoints the README lists as admin
\* endpoints never create, change or delete a project row, never change a
\* message status and never return the stored contact messages.
C9_ReadmeAdminEndpointsGuarded ==
    [][(last'.route \in ReadmeAdminRoutes /\ FailsVerification(last'.token, last'.at))
         => /\ projects' = projects
            /\ contact_messages' = contact_messages
            /\ last'.route = "GET /api/contact" => last'.body.rows = <<>>]_vars

\* C10: whenever a store call of a handler returned an error, the response is
\* an error response (status at least 400).
C10_StoreErrorIsErrorResponse ==
    last.dbErrors > 0 => last.status >= 400

\* C11: GET /api/projects/:id for an id that matches no project row is
\* answered 404.
C11_MissingRowIs404 ==
    (last.route = "GET /api/projects/:id" /\ last.body.error = "PGRST116") =>
        last.status = 404

\* C12: after any sequence of PUT /admin/personal-info and PUT /admin/hero
\* requests handled one after the other, whose store calls may each succeed or
\* fail, personal_info and hero_section each hold at most one row.
C12_SingletonTables ==
    /\ Cardinality(personal_info) <= 1
    /\ Cardinality(hero_section) <= 1

StatusEnum == {"unread", "read", "replied"}

C14_ProjectStatusEnum ==
    \A r \in projects : r.status \in {"completed", "in-progress", "planning"}

HasCode(e, text) == e.code.type = "string" /\ e.code.text = text

MappedCode(e) == HasCode(e, "PGRST116") \/ HasCode(e, "23505") \/ HasCode(e, "23503")

\* C16: errorHandler sends exactly one response for every error; an ApiError
\* gets its own statusCode; otherwise code PGRST116 gives 404, 23505 gives 409
\* and 23503 gives 400; otherwise name ValidationError gives 400,
\* JsonWebTokenError or TokenExpiredError gives 401 and MulterError gives 400;
\* every other error gives 500.
C16_ErrorHandlerStatus ==
    last.route = "errorHandler" =>
        LET e == last.req
            named == ~e.isApiError /\ ~MappedCode(e)
        IN  /\ Len(last.body.sent) = 1
            /\ last.status = last.body.sent[1]
            /\ e.isApiError => last.status = e.statusCode
            /\ (~e.isApiError /\ HasCode(e, "PGRST116")) => last.status = 404
            /\ (~e.isApiError /\ HasCode(e, "23505")) => last.status = 409
            /\ (~e.isApiError /\ HasCode(e, "23503")) => last.status = 400
            /\ (named /\ e.name = "ValidationError") => last.status = 400
            /\ (named /\ e.name \in {"JsonWebTokenError", "TokenExpiredError"}) =>
                  last.status = 401
            /\ (named /\ e.name = "MulterError") => last.status = 400
            /\ (named /\ e.name \notin {"ValidationError", "JsonWebTokenError",
                                        "TokenExpiredError", "MulterError"}) =>
                  last.status = 500

C16_Witness ==
    /\ last.route = "errorHandler"
    /\ ~last.req.isApiError
    /\ HasCode(last.req, "PGRST116")
    /\ last.req.name = "ValidationError"
    /\ last.status = 404

\* C17: when PUT requests on personal_info (likewise hero_section) run
\* concurrently against the empty table, with their existence checks and
\* writes interleaved in any order, the table holds exactly one row once all
\* of them have completed.
C17_ConcurrentUpsertOneRow ==
    \A target \in UpsertTables :
        (/\ \E q \in Requests : inflight[q].target = target
         /\ \A q \in Requests : inflight[q].target = target => inflight[q].pc = "done")
            => Cardinality(UpsertRows(target)) = 1

SettingsWritten(r) ==
    r.route = "PUT /admin/settings" /\ r.handlerRan /\ r.status \in {200, 500}

\* C19: PUT /admin/settings applies its keys as independent upserts with no
\* rollback: when the upsert of at least one key fails the response is 500,
\* every key whose upsert succeeded is persisted with the submitted value, and
\* the rows of the failed keys are left as they were.
C19_SettingsNoRollback ==
    [][SettingsWritten(last') =>
         LET sent == settingsToUpdate(last'.req)
             failed == last'.body.failed
         IN  /\ failed # {} => last'.status = 500
             /\ \A k \in DOMAIN sent \ failed :
                   [key |-> k, value |-> sent[k]] \in settings'
             /\ \A k \in failed :
                   { r \in settings' : r.key = k } = { r \in settings : r.key = k }]_vars

C19_Witness ==
    /\ SettingsWritten(last)
    /\ last.status = 500
    /\ last.body.failed = {"theme"}
    /\ [key |-> "title", value |-> "x"] \in settings
    /\ \A r \in settings : r.key # "theme"

\* the lines of a string, trimmed, without the empty ones
LinesOf(s) == nonEmpty([i \in DOMAIN split(s) |-> trim(split(s)[i])])

\* C20: an experience created or updated with a string description is stored
\* with the list of that string's trimmed, non-empty lines; GET returns the
\* lines joined by a line feed, and normalising the returned string gives the
\* stored list again.
C20_DescriptionNormalised ==
    /\ (/\ last.route \in {"POST /admin/experiences", "PUT /admin/experiences/:id"}
        /\ last.handlerRan
        /\ last.status # 400
        /\ last.body.reached
        /\ last.req.description.kind = "string") =>
            /\ last.status \in {200, 201}
            /\ \E r \in experiences :
                  /\ r.id = last.body.id
                  /\ r.description = Array(LinesOf(last.req.description.chars))
    /\ (last.route = "GET /admin/experiences" /\ last.status = 200) =>
            \A shown \in last.body.rows :
                \E r \in experiences :
                    /\ r.id = shown.id
                    /\ r.description.kind = "array" =>
                          /\ shown.description = String(join(r.description.lines))
                          /\ processDescription(shown.description) = r.description

\* C18 as stated: a handler that answers 400 has issued no database call.
C18_AsStated == (last.handlerRan /\ last.status = 400) => last.dbCalls = 0

\* the 400 of PUT /admin/hero for a body without a name, sent after the lookup
\* has found no row
HeroNameRequired(r) ==
    /\ r.route = "PUT /admin/hero"
    /\ r.handlerRan
    /\ r.status = 400
    /\ heroValid(r.req)
    /\ (~Has(r.req, "name") \/ r.req.name = "")

\* C18: a handler that answers 400 leaves every table as it was, and it has
\* issued no database call, except that PUT /admin/hero answers 400 for a body
\* without a name after its one lookup has found no row; a hero body whose
\* typing_texts is not an array is answered 400 with no database call.
C18_ValidationBeforeStore ==
    [][/\ (last'.handlerRan /\ last'.status = 400) =>
             /\ UNCHANGED <<skills, projects, contact_messages, personal_info,
                            hero_section, experiences, settings, storage>>
             /\ IF HeroNameRequired(last') THEN last'.dbCalls = 1
                ELSE last'.dbCalls = 0
       /\ (/\ last'.route = "PUT /admin/hero"
           /\ last'.handlerRan
           /\ Has(last'.req, "typing_texts")
           /\ ~last'.req.typing_texts.isArray) =>
             last'.status = 400 /\ last'.dbCalls = 0]_vars

C18_Witness ==
    /\ HeroNameRequired(last)
    /\ last.dbCalls = 1
    /\ hero_section = {}

\* C21: POST /contact attempts the notification email only after the row is
\* persisted: a step that attempts an email is a contact request answered 201
\* whose row has just been added to contact_messages, and a contact request
\* answered with an error (validation or insert failed) attempts no email.
C21_MailAfterPersist ==
    [][/\ mails' # mails =>
             /\ last'.route \in ContactRoutes
             /\ last'.status = 201
             /\ \A m \in mails' \ mails :
                   \E r \in contact_messages' \ contact_messages :
                       r.id = m.id /\ r.id = last'.body.id
       /\ (last'.route \in ContactRoutes /\ last'.status \in {400, 500}) =>
             /\ mails' = mails
             /\ last'.mail = "none"]_vars

C21_Witness ==
    /\ last.route = "POST /contact"
    /\ last.status = 201
    /\ last.mail = "sent"
    /\ \E r \in contact_messages : r.id = last.body.id
    /\ \E m \in mails : m.id = last.body.id

\* C22: a PUT /admin/projects/:id answered 200 leaves every column whose field
\* is absent from the body as it was (technologies included), and leaves every
\* other project row unchanged.
C22_AbsentColumnsKept ==
    [][(last'.route = "PUT /admin/projects/:id" /\ last'.status = 200) =>
          \A r \in projects :
              IF r.id = last'.req.id
              THEN \E n \in projects' :
                      /\ n.id = r.id
                      /\ \A f \in DOMAIN r :
                            ~Has(last'.req.body, f) => n[f] = r[f]
              ELSE r \in projects']_vars

\* C23: GET /admin/dashboard/stats reports totalMessages equal to the number
\* of rows of contact_messages and unreadMessages equal to the number of those
\* rows whose status is 'unread'.
C23_StatsCountMessages ==
    (last.route = "GET /admin/dashboard/stats" /\ last.status = 200) =>
        /\ last.body.totalMessages = Cardinality(contact_messages)
        /\ last.body.unreadMessages =
              Cardinality({ r \in contact_messages : r.status = "unread" })

\* C24: after a resume upload answered with success, the resumes folder of
\* the bucket holds exactly one file, the one just uploaded, whatever it held
\* before and whether or not another resume upload is under way.
C24_OneResume ==
    [][(/\ last'.route = "POST /uploads/resume"
        /\ last'.status = 200
        /\ nextId' # nextId) =>
          { o \in storage' : o.folder = "resumes" } = {last'.body.fileName}]_vars

\* C25: a GET /admin/hero that follows a PUT /admin/hero answered 200 returns
\* the greeting, name, typing_texts and quote that were PUT; an id submitted
\* in the body of a PUT is never written.
C25_HeroRoundTrip ==
    [][/\ (/\ last.route = "PUT /admin/hero" /\ last.status = 200
           /\ last'.route = "GET /admin/hero" /\ last'.status = 200) =>
             LET b == last.req
                 g == last'.body
             IN  /\ Has(b, "greeting") => g.greeting = b.greeting
                 /\ Has(b, "name") => g.name = b.name
                 /\ Has(b, "typing_texts") => g.typing_texts = b.typing_texts.items
                 /\ Has(b, "quote") => g.quote = b.quote
       /\ (last'.route = "PUT /admin/hero" /\ Has(last'.req, "id")) =>
             \A r \in hero_section' : r.id = last'.req.id =>
                 \E o \in hero_section : o.id = r.id]_vars

AllActivities ==
    { activity("project", r) : r \in projects }
      \cup { activity("skill", r) : r \in skills }
      \cup { activity("experience", r) : r \in experiences }
      \cup { activity("message", r) : r \in contact_messages }

\* C27: GET /admin/dashboard/activity returns at most limit entries (10 when
\* limit is absent or not a positive integer), sorted from newest to oldest,
\* and they are the limit most recent entries over projects, skills,
\* experiences and contact messages.
C27_ActivityMostRecent ==
    (last.route = "GET /admin/dashboard/activity" /\ last.status = 200) =>
        LET q == last.req.limit
            limit == IF q.kind = "int" /\ q.n > 0 THEN q.n ELSE 10
            a == last.body.activities
            returned == { a[i] : i \in DOMAIN a }
        IN  /\ Len(a) <= limit
            /\ \A i, j \in DOMAIN a : i < j => a[i].date >= a[j].date
            /\ Cardinality(returned) = Len(a)
            /\ returned \subseteq AllActivities
            /\ Len(a) = limit \/ returned = AllActivities
            /\ \A x \in returned, e \in AllActivities \ returned : x.date >= e.date

\* C28: the answer of the public GET /settings is a function of the rows of
\* the public keys alone: each public key is answered with its stored value
\* (a stored false as false) and with its default when no row has the key, so
\* no row of another key changes the answer.
C28_PublicSettingsOnly ==
    (last.route = "GET /api/settings" /\ last.status = 200) =>
        \A k \in PublicKeys :
            last.body[k] =
                IF \E r \in settings : r.key = k
                THEN (CHOOSE r \in settings : r.key = k).value.v
                ELSE PublicDefaults[k]

\* C29 as stated: an authenticated DELETE by id is answered 200.
C29_AsStated == (last.route \in DeleteRoutes /\ last.handlerRan) => last.status = 200

DeletableRows == skills \cup projects \cup experiences \cup contact_messages

\* C29: an authenticated DELETE by id answered 200 removes exactly the rows of
\* its table with that id and no other row, whether or not such a row existed;
\* it is answered 500 only when the store returns an error, and then no row
\* is removed; the same delete repeated with success changes no table and
\* gives the same response.
C29_DeleteIdempotent ==
    [][(last'.route \in DeleteRoutes /\ last'.handlerRan) =>
          \E t \in DeleteTables :
              /\ last'.route = deleteRoute(t)
              /\ \A u \in DeleteTables \ {t} : TableRows(u)' = TableRows(u)
              /\ TableRows(t)' \subseteq TableRows(t)
              /\ \A r \in TableRows(t) \ TableRows(t)' : r.id = last'.req.id
              /\ last'.status \in {200, 500}
              /\ last'.status = 200 => \A r \in TableRows(t)' : r.id # last'.req.id
              /\ last'.status = 500 =>
                    last'.dbErrors = 1 /\ TableRows(t)' = TableRows(t)
              /\ (/\ last.route = last'.route /\ last.req = last'.req
                  /\ last.status = 200 /\ last'.status = 200) =>
                    /\ TableRows(t)' = TableRows(t)
                    /\ last'.body = last.body]_vars

C29_Witness ==
    /\ last.route \in DeleteRoutes
    /\ last.status = 200
    /\ nextId = 3
    /\ Cardinality(DeletableRows) = 1
    /\ \A r \in DeletableRows : r.id # last.req.id

====
